---- MODULE Spec2Model ----
(***************************************************************************)
(* Model of hu5-events' scraper (src/scrape-hull-venues.js): the retrying  *)
(* fetch wrapper, the source tasks that main() runs concurrently, and the  *)
(* pipeline main() applies to what they return (collect, deduplicate,      *)
(* reconcile with the cached events.json, sort, filter, write).            *)
(*                                                                         *)
(* One step of the model is one turn of the JavaScript event loop: the     *)
(* arrival of a response, the firing of a timer, or the continuation of    *)
(* an async function up to its next await.                                 *)
(***************************************************************************)
EXTENDS Integers, Sequences, FiniteSets, TLC

(* ------------------------------ bounds --------------------------------- *)
\* fetchWithTimeout called alone: retries ranges over 0..MaxRetries
MaxRetries == 2
\* fetchWithTimeout called alone: retryDelayMs ranges over 1..MaxDelay and the default
MaxDelay == 2
\* whole run: detail links a list page can yield
MaxLinks == 1
\* one source alone: detail links beyond one full batch
MaxExtra == 1
\* pure-function checks: longest input sequence
MaxLen == 3
\* instants per calendar day of the abstract clock
TicksPerDay == 2

(* -------------------------- program constants -------------------------- *)
\* fetchWithTimeout's defaults
DefaultRetries == 1
DefaultRetryDelayMs == 500
\* the option every call site passes (retries: 1)
CallSiteRetries == 1
\* batch sizes of the detail crawls
AdelphiBatch == 5
DiveBatch == 6
\* start: null of a record that has no instant
NoStart == -1
\* the date part "undated" of the key of such a record
Undated == -1

VARIABLES
    opts,      \* options of fetchWithTimeout: [retries, retryDelayMs]
    net,       \* what the network can do to a request in this run
    req,       \* fetches not yet consumed: <<source, index>> -> request
    world,     \* what the sites serve and the clock shows in this run
    tasks,     \* main's task list, in order
    tpc,       \* per source: position of its async function
    urls,      \* per source: the detail URLs it crawls, in order
    bi,        \* per source: index i of the batch loop
    det,       \* per source: per detail URL, the state of its handler
    out,       \* per source: records pushed so far / returned
    listRes,   \* per source: how its list-page fetch ended (history)
    mainpc,    \* position of main()
    stage,     \* pipeline stage of the most recent step of the run
    collected, \* main's events right after the settled loop
    events,    \* main's events
    future,    \* main's futureEvents
    snapshot,  \* public/events.json as main finds it
    stdout,    \* what was written to stdout
    ppc,       \* position of a pure function called on its own
    xs, ys, zs \* its input, its result, the result of a second pass

fetchVars == <<opts, net, req, world>>
taskVars == <<tasks, tpc, urls, bi, det, out, listRes>>
mainVars == <<mainpc, stage, collected, events, future, snapshot, stdout>>
pureVars == <<ppc, xs, ys, zs>>
vars == <<opts, net, req, world, tasks, tpc, urls, bi, det, out, listRes,
          mainpc, stage, collected, events, future, snapshot, stdout, ppc, xs, ys, zs>>

(* ========================= fetchWithTimeout ============================ *)
\* What can happen to a fetch in flight: a response with a status, a
\* connection error, or silence (then only the abort timer can end it).
Statuses == {"200", "404", "500"}
AllNet == Statuses \cup {"neterr", "silent"}

\* for (let attempt = 0; ...): the first attempt, timer armed, fetch issued.
\* calls counts the fetch() calls made, waits lists the backoffs slept, evs
\* lists how each finished attempt ended (history kept for the properties).
NewFwt ==
    [kind |-> "fwt", st |-> "inflight", attempt |-> 0, calls |-> 1,
     timer |-> TRUE, lastErr |-> "none", res |-> "none", waits |-> <<>>,
     evs |-> <<>>]

\* a bare fetch(url, {headers}): no AbortController, no timer, no loop
NewBare ==
    [kind |-> "bare", st |-> "inflight", attempt |-> 0, calls |-> 1,
     timer |-> FALSE, lastErr |-> "none", res |-> "none", waits |-> <<>>,
     evs |-> <<>>]

\* res.ok
ResOk(status) == status = "200"

\* the error the catch block sees for an event that is not a returned response
ErrOf(ev) ==
    CASE ev = "neterr" -> "neterr"
      [] ev = "timeout" -> "abort"
      [] OTHER -> "HTTP"

BackoffFlat(r, o) == o.retryDelayMs

\* the backoff before the next attempt
Backoff(r, o) == o.retryDelayMs * (r.attempt + 1)

\* the catch block: remember the error; wait and continue, or throw it
FwtCatch(r, err, o) ==
    IF r.attempt < o.retries
    THEN [r EXCEPT !.st = "backoff", !.timer = FALSE, !.lastErr = err,
                   !.waits = Append(@, Backoff(r, o))]
    ELSE [r EXCEPT !.st = "thrown", !.timer = FALSE, !.lastErr = err]

FwtReturnsOkOnly(status) == ResOk(status)

\* 404 is returned to the caller as well as any ok response
FwtReturns(status) == ResOk(status) \/ status = "404"

\* one attempt of fetchWithTimeout ends with event ev
FwtStep(r, ev, o) ==
    LET r1 == [r EXCEPT !.evs = Append(@, ev)]
    IN  IF ev \in Statuses /\ FwtReturns(ev)
        THEN [r1 EXCEPT !.st = "returned", !.timer = FALSE, !.res = ev]
        ELSE FwtCatch(r1, ErrOf(ev), o)

\* a bare fetch resolves with any response and rejects on a connection error
BareStep(r, ev) ==
    LET r1 == [r EXCEPT !.evs = Append(@, ev)]
    IN  IF ev \in Statuses
        THEN [r1 EXCEPT !.st = "returned", !.res = ev]
        ELSE [r1 EXCEPT !.st = "thrown", !.lastErr = ErrOf(ev)]

ReqStep(r, ev, o) == IF r.kind = "fwt" THEN FwtStep(r, ev, o) ELSE BareStep(r, ev)

\* the events that can end the current attempt of request r
ReqEvents(r) ==
    (net \cap (Statuses \cup {"neterr"}))
      \cup (IF r.timer /\ "silent" \in net THEN {"timeout"} ELSE {})

\* the backoff is over: the loop continues with the next attempt
FwtNext(r) ==
    [r EXCEPT !.st = "inflight", !.attempt = @ + 1, !.calls = @ + 1, !.timer = TRUE]

\* the backoff timer of request k fires
FwtRetry(k) ==
    /\ k \in DOMAIN req
    /\ req[k].st = "backoff"
    /\ req' = [req EXCEPT ![k] = FwtNext(req[k])]
    /\ stage' = IF mainpc = "none" THEN stage ELSE "FETCHING"
    /\ UNCHANGED <<opts, net, world, taskVars, mainpc, collected, events, future,
                   snapshot, stdout, pureVars>>

(* --------------- fetchWithTimeout called on its own -------------------- *)
CallKey == <<"call", 0>>

Delays == (1..MaxDelay) \cup {DefaultRetryDelayMs}

NoSnapshot == [ok |-> FALSE, data |-> <<>>]

NoWorld == [pages |-> "none", links |-> <<>>, now |-> 0]

Idle ==
    /\ tasks = <<>> /\ tpc = <<>> /\ urls = <<>> /\ bi = <<>> /\ det = <<>> /\ out = <<>>
    /\ listRes = <<>>
    /\ mainpc = "none" /\ stage = "none" /\ collected = <<>> /\ events = <<>>
    /\ future = <<>> /\ snapshot = NoSnapshot /\ stdout = <<>>

NoPure == ppc = "none" /\ xs = <<>> /\ ys = <<>> /\ zs = <<>>

InitFetch ==
    /\ opts \in [retries : 0..MaxRetries, retryDelayMs : Delays]
    /\ net = AllNet
    /\ world = NoWorld
    /\ req = (CallKey :> NewFwt)
    /\ Idle
    /\ NoPure

\* the attempt in flight ends: response, connection error or abort
FetchCallEvent ==
    /\ req[CallKey].st = "inflight"
    /\ \E ev \in ReqEvents(req[CallKey]) :
           req' = [req EXCEPT ![CallKey] = FwtStep(req[CallKey], ev, opts)]
    /\ UNCHANGED <<opts, net, world, taskVars, mainVars, pureVars>>

FetchCallRetry == FwtRetry(CallKey)

NextFetch == FetchCallEvent \/ FetchCallRetry

SpecFetch == InitFetch /\ [][NextFetch]_vars

TheCall == req[CallKey]
FailedEv(ev) == ev \in {"500", "neterr", "timeout"}
AllFailed(es) == \A j \in 1..Len(es) : FailedEv(es[j])
Settled(r) == r.st \in {"returned", "thrown"}

\* C2: fetchWithTimeout(url, {retries: R, retryDelayMs: D}) makes at most R+1
\* attempts; once an attempt succeeds its response is the result and no
\* further attempt is made; the wait before the k-th retry is D*k; after the
\* (R+1)-th failed attempt it throws that attempt's error without waiting.
C2_State ==
    LET r == TheCall
        n == Len(r.evs)
    IN  /\ r.calls <= opts.retries + 1
        /\ Len(r.waits) <= opts.retries
        /\ \A k \in 1..Len(r.waits) : r.waits[k] = opts.retryDelayMs * k
        /\ r.st = "inflight" => Len(r.waits) = r.calls - 1
        /\ r.st = "backoff" => Len(r.waits) = r.calls
        /\ r.st = "returned" =>
               /\ r.res = r.evs[n] /\ n = r.calls
               /\ AllFailed(SubSeq(r.evs, 1, n - 1))
               /\ Len(r.waits) = r.calls - 1
        /\ r.st = "thrown" =>
               /\ r.calls = opts.retries + 1
               /\ Len(r.waits) = opts.retries
               /\ r.lastErr = ErrOf(r.evs[n]) /\ n = r.calls

C2_BoundedLinearRetry == []C2_State /\ [][Settled(TheCall) => req' = req]_vars

C2_Witness ==
    /\ TheCall.st = "thrown"
    /\ opts.retries = MaxRetries
    /\ TheCall.calls = MaxRetries + 1
    /\ TheCall.waits = [k \in 1..MaxRetries |-> opts.retryDelayMs * k]
    /\ TheCall.evs[1] # TheCall.evs[TheCall.calls]

\* C3: a 404 response is returned on the attempt that received it and is
\* never retried; any other non-2xx response, a timeout abort and a
\* connection error are failed attempts, retried while attempts remain.
C3_Only404NotRetried ==
    LET r == TheCall
        n == Len(r.evs)
    IN  /\ \A j \in 1..n : r.evs[j] \in {"200", "404"} =>
               j = n /\ r.st = "returned" /\ r.res = r.evs[j] /\ r.calls = j
        /\ (n > 0 /\ FailedEv(r.evs[n])) =>
               IF n <= opts.retries
               THEN \/ r.st = "backoff" /\ r.calls = n /\ ENABLED FetchCallRetry
                    \/ r.st = "inflight" /\ r.calls = n + 1
               ELSE r.st = "thrown"
        /\ r.st = "inflight" => r.calls = n + 1

C3_Witness ==
    /\ TheCall.st = "returned"
    /\ TheCall.res = "404"
    /\ TheCall.evs = <<"500", "404">>


(* ======================== deduplicateEvents ============================ *)
\* An event record carries the fields the pipeline reads: source, venue,
\* url, title, start (an instant of the abstract clock, or NoStart) and
\* scrapedAt (the clock of the run that built it).
\* String.prototype.toLowerCase on the strings of the model
LowerStr(s) ==
    CASE s = "Gig" -> "gig"
      [] s = "DIVE HU5" -> "dive hu5"
      [] s = "Dive HU5" -> "dive hu5"
      [] s = "Polar Bear Music Club" -> "polar bear music club"
      [] s = "The New Adelphi Club" -> "the new adelphi club"
      [] s = "Sunday Lunch" -> "sunday lunch"
      [] s = "Mr Moody's Tavern" -> "mr moody's tavern"
      [] s = "Mr Moodys" -> "mr moodys"
      [] s = "The Tavern" -> "the tavern"
      [] s = "Adelphi" -> "adelphi"
      [] s = "The Adelphi Club" -> "the adelphi club"
      [] s = "Hoi" -> "hoi"
      [] OTHER -> s

\* String.prototype.trim: the strings of a built record carry no outer
\* blanks (buildEvent's normalizeWhitespace), the raw ones of a page may
TrimStr(s) ==
    CASE s = " gig" -> "gig"
      [] s = "gig " -> "gig"
      [] s = " Gig" -> "Gig"
      [] s = " t1" -> "t1"
      [] s = "t1 " -> "t1"
      [] s = " " -> ""
      [] s = " 12 High St " -> "12 High St"
      [] s = " 19:30" -> "19:30"
      [] s = " 7:30pm" -> "7:30pm"
      [] s = " 1930" -> "1930"
      [] s = " TBC" -> "TBC"
      [] s = "19/9/2025 " -> "19/9/2025"
      [] s = "Friday " -> "Friday"
      [] OTHER -> s

\* dayjs(ev.start).format("YYYY-MM-DD"): the calendar day of an instant
DateOf(t) == t \div TicksPerDay

HasStart(ev) == ev.start # NoStart

DedupKeyNoDate(ev) == <<TrimStr(LowerStr(ev.title)), Undated, TrimStr(LowerStr(ev.venue))>>

\* `${normalizedTitle}|${dateKey}|${venueKey}`
DedupKey(ev) ==
    <<TrimStr(LowerStr(ev.title)),
      IF HasStart(ev) THEN DateOf(ev.start) ELSE Undated,
      TrimStr(LowerStr(ev.venue))>>

RECURSIVE DedupFromSplice(_, _, _)
\* removal while iterating: the record after a dropped one is not looked at
DedupFromSplice(evs, seen, kept) ==
    IF evs = <<>> THEN kept
    ELSE LET ev == Head(evs)
             key == DedupKey(ev)
         IN  IF key \notin seen
             THEN DedupFromSplice(Tail(evs), seen \cup {key}, Append(kept, ev))
             ELSE IF Len(evs) >= 2
                  THEN DedupFromSplice(Tail(Tail(evs)), seen, Append(kept, evs[2]))
                  ELSE kept

RECURSIVE DedupFrom(_, _, _)
\* the loop of deduplicateEvents: seen keys, kept records
DedupFrom(evs, seen, kept) ==
    IF evs = <<>> THEN kept
    ELSE LET ev == Head(evs)
             key == DedupKey(ev)
         IN  IF key \notin seen
             THEN DedupFrom(Tail(evs), seen \cup {key}, Append(kept, ev))
             ELSE DedupFrom(Tail(evs), seen, kept)

deduplicateEvents(evs) == DedupFrom(evs, {}, <<>>)

(* ---------------- deduplicateEvents called on its own ------------------ *)
SeqsUpTo(S, n) == UNION {[1..k -> S] : k \in 0..n}

\* built records: equal keys under different spellings, two instants of one
\* day, the next day, no instant, another venue, another title
DedupTitlesVenues ==
    {<<"Gig", "DIVE HU5">>, <<"gig", "Dive HU5">>,
     <<"Gig", "Polar Bear Music Club">>, <<"quiz", "DIVE HU5">>}

DedupUniverse ==
    {[source |-> tv[2], venue |-> tv[2], url |-> <<"dive", 1>>, title |-> tv[1], start |-> t,
      scrapedAt |-> 1] :
        tv \in DedupTitlesVenues, t \in {NoStart, 0, 1, TicksPerDay}}

NoFetch == opts = [retries |-> DefaultRetries, retryDelayMs |-> DefaultRetryDelayMs]
              /\ net = {} /\ req = <<>> /\ world = NoWorld

InitDedup ==
    /\ xs \in SeqsUpTo(DedupUniverse, MaxLen)
    /\ ppc = "in" /\ ys = <<>> /\ zs = <<>>
    /\ NoFetch
    /\ Idle

\* events = deduplicateEvents(events)
DedupCall ==
    /\ ppc = "in"
    /\ ys' = deduplicateEvents(xs)
    /\ ppc' = "out"
    /\ UNCHANGED <<fetchVars, taskVars, mainVars, xs, zs>>

\* deduplicateEvents applied to its own result
DedupAgain ==
    /\ ppc = "out"
    /\ zs' = deduplicateEvents(ys)
    /\ ppc' = "out2"
    /\ UNCHANGED <<fetchVars, taskVars, mainVars, xs, ys>>

NextDedup == DedupCall \/ DedupAgain

SpecDedup == InitDedup /\ [][NextDedup]_vars

\* the key as the claim words it
ClaimKey(ev) ==
    <<LowerStr(ev.title), IF ev.start = NoStart THEN Undated ELSE DateOf(ev.start),
      LowerStr(ev.venue)>>

\* the positions of the records that are the first with their key
FirstOfKey(s) ==
    {i \in 1..Len(s) : \A j \in 1..(i - 1) : ClaimKey(s[j]) # ClaimKey(s[i])}

\* the k-th smallest element of a set of positions
Nth(I, k) == CHOOSE i \in I : Cardinality({j \in I : j <= i}) = k

\* s restricted to the positions I, in order
Restrict(s, I) == [k \in 1..Cardinality(I) |-> s[Nth(I, k)]]

\* C8: deduplicateEvents returns the subsequence of its input made of the
\* first record of every key lower(title)|localDate(start) or
\* undated|lower(venue): same order, records unchanged, one per key.
C8_FirstPerKey ==
    ppc \in {"out", "out2"} =>
        /\ ys = Restrict(xs, FirstOfKey(xs))
        /\ \A i \in 1..Len(xs) : \E k \in 1..Len(ys) : ClaimKey(ys[k]) = ClaimKey(xs[i])
        /\ \A k, l \in 1..Len(ys) : ClaimKey(ys[k]) = ClaimKey(ys[l]) => k = l

C8_Witness ==
    /\ ppc = "out"
    /\ Len(xs) = 3 /\ Len(ys) = 2
    /\ xs[1].title = "Gig" /\ xs[1].start = 0
    /\ xs[2].title = "gig" /\ xs[2].start = 1
    /\ xs[3].start = TicksPerDay
    /\ ys = <<xs[1], xs[3]>>

\* C9: deduplicateEvents is idempotent: a second pass over its own result
\* returns that result, element for element and in the same order.
C9_Idempotent == ppc = "out2" => zs = ys

C9_Witness ==
    /\ ppc = "out2"
    /\ Len(xs) = 3 /\ Len(ys) = 2 /\ zs = ys
    /\ DedupKey(xs[1]) = DedupKey(xs[2])

(* ============================ source tasks ============================== *)
\* Three of main's sources, one of each shape: scrapePolarBear (bare fetch,
\* detail pages one after the other), scrapeAdelphi (bare fetch, batches of
\* BATCH = 5) and scrapeDiveHU5 (fetchWithTimeout, batches of BATCH = 6;
\* scrapeTPR has the same shape).
Sources == {"polar", "adelphi", "dive"}

SourceName(s) ==
    CASE s = "polar" -> "Polar Bear Music Club"
      [] s = "adelphi" -> "The Adelphi Club"
      [] OTHER -> "DIVE HU5"

VenueName(s) ==
    CASE s = "polar" -> "Polar Bear Music Club"
      [] s = "adelphi" -> "The New Adelphi Club"
      [] OTHER -> "DIVE HU5"

\* which sources fetch through fetchWithTimeout
UsesTimeout(s) == s = "dive"

\* how many detail fetches a source starts together
Batch(s) ==
    CASE s = "adelphi" -> AdelphiBatch
      [] s = "dive" -> DiveBatch
      [] OTHER -> 1

NewReq(s) == IF UsesTimeout(s) THEN NewFwt ELSE NewBare

ListUrl(s) == <<s, 0>>
NoUrl == <<>>

\* CUTOFF: the start of the day of the clock
CUTOFF == DateOf(world.now) * TicksPerDay

\* the scrapers' own past filter (Adelphi keeps one more day)
IsPast(s, t) ==
    IF s = "adelphi" THEN t < CUTOFF - TicksPerDay ELSE t < CUTOFF

\* normalizeWhitespace on the titles of the model
NormalizeWs(t) == TrimStr(t)

\* buildEvent on what a detail page holds, as far as the pipeline reads it
BuiltRecord(s, u, c) ==
    [source |-> SourceName(s), venue |-> VenueName(s), url |-> u,
     title |-> NormalizeWs(c.title), start |-> c.start, scrapedAt |-> world.now]

\* what the detail page of a URL holds in a run: "mixed" serves an undated
\* page with blanks around its title, a page of now and a page of long ago in
\* turn; "same" serves the same title and instant under every URL
PageOf(mode, now, u) ==
    IF mode = "same" THEN [title |-> "Gig", start |-> now]
    ELSE CASE u[2] % 3 = 1 -> [title |-> " gig", start |-> NoStart]
           [] u[2] % 3 = 2 -> [title |-> "Gig", start |-> now]
           [] OTHER -> [title |-> "Gig", start |-> 0]

\* what a detail handler returns for a page: null (here <<>>) or the record
DetailResult(s, u, c) ==
    IF c.start # NoStart /\ IsPast(s, c.start) THEN <<>> ELSE <<BuiltRecord(s, u, c)>>

RemoveKey(f, k) == [x \in DOMAIN f \ {k} |-> f[x]]

\* the URLs already cached for Adelphi (scrapeAdelphi step 2.5)
AdelphiCached ==
    IF snapshot.ok
    THEN {snapshot.data[i].url : i \in {j \in 1..Len(snapshot.data) :
              /\ snapshot.data[j].source = "The Adelphi Club"
              /\ snapshot.data[j].url # NoUrl}}
    ELSE {}

\* the detail URLs a source crawls, from the links its list page held
CrawlList(s, found) ==
    IF s = "adelphi"
    THEN LET all == IF found # <<>> THEN found ELSE <<ListUrl(s)>>
             IsNew(u) == u \notin AdelphiCached
             fresh == SelectSeq(all, IsNew)
         IN  IF fresh # <<>> THEN fresh ELSE all
    ELSE found

Min(a, b) == IF a < b THEN a ELSE b

BatchEndAll(s, i, n) == n

\* batch = urls.slice(i, i + BATCH): the last index of the batch starting at i
BatchEnd(s, i, n) == Min(i + Batch(s), n)

Fetching == [st |-> "fetching", val |-> <<>>, threw |-> FALSE]
NotStarted == [st |-> "idle", val |-> <<>>, threw |-> FALSE]
HandlerSettled(val, threw) == [st |-> "settled", val |-> val, threw |-> threw]

\* the loop over us reaches index i with o collected: return o, or start
\* the fetches of the next batch and await them
Continue(s, i, us, d, o, rq) ==
    /\ urls' = [urls EXCEPT ![s] = us]
    /\ bi' = [bi EXCEPT ![s] = i]
    /\ out' = [out EXCEPT ![s] = o]
    /\ IF i >= Len(us)
       THEN /\ tpc' = [tpc EXCEPT ![s] = "fulfilled"]
            /\ det' = [det EXCEPT ![s] = d]
            /\ req' = rq
       ELSE LET js == (i + 1)..BatchEnd(s, i, Len(us))
            IN  /\ tpc' = [tpc EXCEPT ![s] = "crawl"]
                /\ det' = [det EXCEPT ![s] =
                              [j \in 1..Len(us) |-> IF j \in js THEN Fetching ELSE d[j]]]
                /\ req' = rq @@ [k \in {<<s, j>> : j \in js} |-> NewReq(s)]

ListOutcomeIgnoreThrow(r) == IF r.st = "backoff" THEN "retry" ELSE "parse"

\* what the task does when an attempt of its list fetch ends
ListOutcome(r) ==
    CASE r.st = "backoff" -> "retry"
      [] r.st = "thrown" -> "empty"
      [] OTHER -> "parse"

\* the list-page fetch of source s: an attempt ends. On a throw the task
\* returns []; on a response the page is parsed (outside any try block, so
\* an exception there rejects the task) and the first batch is started.
ListEventWith(s, ev) ==
    /\ mainpc = "FETCHING"
    /\ tpc[s] = "list"
    /\ req[ListUrl(s)].st = "inflight"
    /\ ev \in ReqEvents(req[ListUrl(s)])
    /\    LET r2 == ReqStep(req[ListUrl(s)], ev, opts)
              rq == RemoveKey(req, ListUrl(s))
              what == ListOutcome(r2)
          IN  CASE what = "retry" ->
                     /\ req' = [req EXCEPT ![ListUrl(s)] = r2]
                     /\ UNCHANGED <<tpc, urls, bi, det, out, listRes>>
                [] what = "empty" ->
                     /\ listRes' = [listRes EXCEPT ![s] = "failed"]
                     /\ tpc' = [tpc EXCEPT ![s] = "fulfilled"]
                     /\ req' = rq
                     /\ UNCHANGED <<urls, bi, det, out>>
                [] OTHER ->
                     /\ listRes' = [listRes EXCEPT ![s] = r2.st]
                     /\ \/ /\ tpc' = [tpc EXCEPT ![s] = "rejected"]
                           /\ req' = rq
                           /\ UNCHANGED <<urls, bi, det, out>>
                        \/ \E n \in world.links[s] :
                              LET us == CrawlList(s, [j \in 1..n |-> <<s, j>>])
                              IN  Continue(s, 0, us, [j \in 1..Len(us) |-> NotStarted],
                                           <<>>, rq)
    /\ stage' = "FETCHING"
    /\ UNCHANGED <<opts, net, world, tasks, mainpc, collected, events, future,
                   snapshot, stdout, pureVars>>

ListEvent(s) == \E ev \in AllNet \cup {"timeout"} : ListEventWith(s, ev)

\* the handler of detail URL j of source s ends with val (null is <<>>)
HandlerDone(s, j, val, threw) ==
    LET rq == RemoveKey(req, <<s, j>>)
        d1 == [det[s] EXCEPT ![j] = HandlerSettled(val, threw)]
    IN  CASE s = "polar" ->
               \* for (const url of eventLinks): push and sleep(60), or go on
               IF val = <<>>
               THEN Continue(s, j, urls[s], d1, out[s], rq)
               ELSE /\ out' = [out EXCEPT ![s] = @ \o val]
                    /\ tpc' = [tpc EXCEPT ![s] = "sleep"]
                    /\ det' = [det EXCEPT ![s] = d1]
                    /\ req' = rq
                    /\ UNCHANGED <<urls, bi>>
          [] s = "dive" /\ val # <<>> ->
               \* await sleep(40); return ev
               /\ det' = [det EXCEPT ![s][j] = [st |-> "sleeping", val |-> val, threw |-> FALSE]]
               /\ req' = rq
               /\ UNCHANGED <<tpc, urls, bi, out>>
          [] OTHER ->
               /\ det' = [det EXCEPT ![s] = d1]
               /\ req' = rq
               /\ UNCHANGED <<tpc, urls, bi, out>>

\* an attempt of the fetch of detail URL j of source s ends
DetailEventWith(s, j, ev) ==
    /\ mainpc = "FETCHING"
    /\ tpc[s] = "crawl"
    /\ <<s, j>> \in DOMAIN req
    /\ req[<<s, j>>].st = "inflight"
    /\ ev \in ReqEvents(req[<<s, j>>])
    /\    LET r2 == ReqStep(req[<<s, j>>], ev, opts)
          IN  CASE r2.st = "backoff" ->
                     /\ req' = [req EXCEPT ![<<s, j>>] = r2]
                     /\ stage' = "FETCHING"
                     /\ UNCHANGED <<tpc, urls, bi, det, out>>
                [] r2.st = "thrown" ->
                     /\ HandlerDone(s, j, <<>>, TRUE)
                     /\ stage' = "FETCHING"
                [] OTHER ->
                     LET c == PageOf(world.pages, world.now, urls[s][j])
                     IN  /\ HandlerDone(s, j, DetailResult(s, urls[s][j], c), FALSE)
                         /\ stage' = IF DetailResult(s, urls[s][j], c) = <<>> /\ s # "polar"
                                     THEN "FETCHING" ELSE "BUILDING"
    /\ UNCHANGED <<opts, net, world, tasks, listRes, mainpc, collected, events, future,
                   snapshot, stdout, pureVars>>

DetailEvent(s, j) == \E ev \in AllNet \cup {"timeout"} : DetailEventWith(s, j, ev)

\* the sleep(40) of a Dive handler is over: it returns its record
DetailWake(s, j) ==
    /\ mainpc = "FETCHING"
    /\ tpc[s] = "crawl"
    /\ j \in DOMAIN det[s]
    /\ det[s][j].st = "sleeping"
    /\ det' = [det EXCEPT ![s][j].st = "settled"]
    /\ stage' = "FETCHING"
    /\ UNCHANGED <<fetchVars, tasks, tpc, urls, bi, out, listRes, mainpc, collected,
                   events, future, snapshot, stdout, pureVars>>

\* the indices of the batch in progress
CurrentBatch(s) == (bi[s] + 1)..BatchEnd(s, bi[s], Len(urls[s]))

RECURSIVE Values(_, _, _)
\* for (const r of settled) if (r.status === "fulfilled" && r.value) push
Values(d, j, last) ==
    IF j > last THEN <<>> ELSE d[j].val \o Values(d, j + 1, last)

\* Promise.allSettled(batch) resolves: push the records; Adelphi then
\* sleeps 60 ms, Dive goes on with the next batch
BatchDone(s) ==
    /\ mainpc = "FETCHING"
    /\ s # "polar"
    /\ tpc[s] = "crawl"
    /\ \A j \in CurrentBatch(s) : det[s][j].st = "settled"
    /\ LET o == out[s] \o Values(det[s], bi[s] + 1, BatchEnd(s, bi[s], Len(urls[s])))
       IN  IF s = "adelphi"
           THEN /\ out' = [out EXCEPT ![s] = o]
                /\ tpc' = [tpc EXCEPT ![s] = "sleep"]
                /\ UNCHANGED <<urls, bi, det, req>>
           ELSE Continue(s, bi[s] + Batch(s), urls[s], det[s], o, req)
    /\ stage' = "FETCHING"
    /\ UNCHANGED <<opts, net, world, tasks, listRes, mainpc, collected, events, future,
                   snapshot, stdout, pureVars>>

\* the sleep(60) of Polar Bear (per record) or Adelphi (per batch) is over
TaskWake(s) ==
    /\ mainpc = "FETCHING"
    /\ tpc[s] = "sleep"
    /\ Continue(s, bi[s] + Batch(s), urls[s], det[s], out[s], req)
    /\ stage' = "FETCHING"
    /\ UNCHANGED <<opts, net, world, tasks, listRes, mainpc, collected, events, future,
                   snapshot, stdout, pureVars>>

\* the backoff of a fetch of source s is over
TaskRetry(s, j) == mainpc = "FETCHING" /\ FwtRetry(<<s, j>>)

(* ================================ main ================================== *)
\* /moody/i and /\bsunday\s+lunch\b/i on the strings of the model
MatchesMoody(v) == v \in {"Mr Moody's Tavern", "Mr Moodys"}
isSundayLunchTitle(t) == t \in {"Sunday Lunch", "sunday lunch"}
CANON == "Mr Moody's Tavern"

\* /^https?:\/\//i.test(e.url): the URLs of pages are absolute
HasHttpUrl(ev) == ev.url # NoUrl

RECURSIVE FirstPerUrl(_, _, _)
\* keep the first ticket of every URL, in order
FirstPerUrl(ts, seen, kept) ==
    IF ts = <<>> THEN kept
    ELSE IF Head(ts).url \in seen
         THEN FirstPerUrl(Tail(ts), seen, kept)
         ELSE FirstPerUrl(Tail(ts), seen \cup {Head(ts).url}, Append(kept, Head(ts)))

\* t.label || "Tickets"
LabelOf(t) == IF t.label = "" THEN "Tickets" ELSE t.label

HasTicketUrl(t) == t.url # ""

CleanTicketsNoTrim(tickets) ==
    LET Cleaned(t) == [label |-> LabelOf(t), url |-> TrimStr(t.url)]
        firsts == FirstPerUrl(SelectSeq(tickets, HasTicketUrl), {}, <<>>)
    IN  [i \in 1..Len(firsts) |-> Cleaned(firsts[i])]

\* buildEvent's cleanTickets: drop the entries without URL, default the
\* label, trim the URL, keep the first entry of every URL
CleanTickets(tickets) ==
    LET withUrl == SelectSeq(tickets, HasTicketUrl)
        cleaned == [i \in 1..Len(withUrl) |->
                       [label |-> LabelOf(withUrl[i]), url |-> TrimStr(withUrl[i].url)]]
    IN  FirstPerUrl(cleaned, {}, <<>>)

RECURSIVE Flatten(_, _, _)
\* the tickets of the records of evs at the positions of B, in order
Flatten(evs, B, i) ==
    IF i > Len(evs) THEN <<>>
    ELSE (IF i \in B THEN evs[i].tickets ELSE <<>>) \o Flatten(evs, B, i + 1)

\* mergedTickets of a bucket: trimmed non-empty URLs, the first of each
MergedTickets(evs, B) ==
    LET all == Flatten(evs, B, 1)
        trimmed == [i \in 1..Len(all) |-> [label |-> LabelOf(all[i]), url |-> TrimStr(all[i].url)]]
    IN  FirstPerUrl(SelectSeq(trimmed, HasTicketUrl), {}, <<>>)

\* displayTime24 of a record that has none
NoTime == -1

\* mergeMoodysSundayDuplicates: the dated Mr Moody's Sunday Lunch records are
\* grouped by local day; of a group of two or more the first record with a
\* URL or tickets (else the first) stays, is given the canonical venue and
\* source, the tickets of the whole group and a display time if it lacks
\* one; the others of the group are dropped
mergeMoodysSundayDuplicates(evs) ==
    LET M == {i \in 1..Len(evs) :
                 /\ MatchesMoody(evs[i].venue)
                 /\ isSundayLunchTitle(evs[i].title)
                 /\ HasStart(evs[i])}
        Bucket(i) == {j \in M : DateOf(evs[j].start) = DateOf(evs[i].start)}
        Least(I) == CHOOSE i \in I : \A j \in I : i <= j
        Preferred(j) == HasHttpUrl(evs[j]) \/ evs[j].tickets # <<>>
        Winner(B) == IF \E j \in B : Preferred(j)
                     THEN Least({j \in B : Preferred(j)})
                     ELSE Least(B)
        BestTime(B) == IF \E j \in B : evs[j].displayTime24 # NoTime
                       THEN evs[Least({j \in B : evs[j].displayTime24 # NoTime})].displayTime24
                       ELSE NoTime
        Merged(i) == i \in M /\ Cardinality(Bucket(i)) >= 2
        drop == {i \in 1..Len(evs) : Merged(i) /\ i # Winner(Bucket(i))}
        mut == [i \in 1..Len(evs) |->
                   IF Merged(i) /\ i = Winner(Bucket(i))
                   THEN [evs[i] EXCEPT !.venue = CANON, !.source = CANON,
                                       !.tickets = MergedTickets(evs, Bucket(i)),
                                       !.displayTime24 =
                                           IF @ # NoTime THEN @ ELSE BestTime(Bucket(i))]
                   ELSE evs[i]]
    IN  Restrict(mut, (1..Len(evs)) \ drop)

\* normalizeCanonName(ev.venue) === "Mr Moody's Tavern" ? {...} : ev
Canonicalise(evs) ==
    [i \in 1..Len(evs) |->
        IF MatchesMoody(evs[i].venue)
        THEN [evs[i] EXCEPT !.venue = CANON, !.source = CANON]
        ELSE evs[i]]

Infinity == 999999

\* getDistance(HULL_CENTER, VENUE_COORDS[ev.venue]) in metres; a venue
\* without coordinates has distance null, which sorts as Infinity
DistanceOf(ev) ==
    CASE ev.venue = "Polar Bear Music Club" -> 2502
      [] ev.venue = "DIVE HU5" -> 3002
      [] ev.venue = "The New Adelphi Club" -> 3688
      [] ev.venue = "Mr Moody's Tavern" -> 2680
      [] OTHER -> Infinity

\* the comparator of events.sort is negative
SortsBefore(a, b) ==
    IF DistanceOf(a) # DistanceOf(b)
    THEN DistanceOf(a) < DistanceOf(b)
    ELSE IF ~HasStart(a) THEN FALSE
         ELSE IF ~HasStart(b) THEN TRUE
         ELSE a.start < b.start

RECURSIVE InsertSorted(_, _)
\* x goes behind every element it does not sort before (the sort is stable)
InsertSorted(x, sorted) ==
    IF sorted = <<>> THEN <<x>>
    ELSE IF SortsBefore(x, Head(sorted))
         THEN <<x>> \o sorted
         ELSE <<Head(sorted)>> \o InsertSorted(x, Tail(sorted))

RECURSIVE SortEvents(_)
SortEvents(evs) ==
    IF evs = <<>> THEN <<>>
    ELSE InsertSorted(evs[Len(evs)], SortEvents(SubSeq(evs, 1, Len(evs) - 1)))

\* Number.isNaN(t) ? true : t >= nowMs
KeepFuture(ev) == ~HasStart(ev) \/ ev.start >= world.now

IsSettled(s) == tpc[s] \in {"fulfilled", "rejected"}

AnySettled(ts) == \E i \in 1..Len(ts) : IsSettled(ts[i])

\* await Promise.allSettled(tasks) resolves
AllSettled(ts) == \A i \in 1..Len(ts) : IsSettled(ts[i])

RECURSIVE CollectFailFast(_, _)
CollectFailFast(ts, i) ==
    IF \E k \in 1..Len(ts) : tpc[ts[k]] = "rejected" THEN <<>>
    ELSE IF i > Len(ts) THEN <<>>
    ELSE out[ts[i]] \o CollectFailFast(ts, i + 1)

RECURSIVE Collect(_, _)
\* for (const r of settled) if (r.status === "fulfilled") events.push(...r.value)
Collect(ts, i) ==
    IF i > Len(ts) THEN <<>>
    ELSE (IF tpc[ts[i]] = "fulfilled" THEN out[ts[i]] ELSE <<>>) \o Collect(ts, i + 1)

\* main after the await: collect, merge the Sunday Lunch doubles,
\* canonicalise, deduplicate
MainDedup ==
    /\ mainpc = "FETCHING"
    /\ AllSettled(tasks)
    /\ collected' = Collect(tasks, 1)
    /\ events' = deduplicateEvents(Canonicalise(mergeMoodysSundayDuplicates(collected')))
    /\ mainpc' = "DEDUPING"
    /\ stage' = "DEDUPING"
    /\ UNCHANGED <<fetchVars, taskVars, future, snapshot, stdout, pureVars>>

\* the URLs of the newly scraped events
NewEventUrls(evs) == {evs[i].url : i \in {j \in 1..Len(evs) : evs[j].url # NoUrl}}

ReconcileKeepStale(evs, snap) == deduplicateEvents(evs \o snap.data)

\* the try block that merges public/events.json: cached events whose URL was
\* not scraped again are appended, then deduplicateEvents runs again; a
\* missing or unreadable file leaves events as they are
Reconcile(evs, snap) ==
    IF snap.ok
    THEN LET Maintained(ev) == ev.url \notin NewEventUrls(evs)
         IN  deduplicateEvents(evs \o SelectSeq(snap.data, Maintained))
    ELSE evs

MainReconcile ==
    /\ mainpc = "DEDUPING"
    /\ events' = Reconcile(events, snapshot)
    /\ mainpc' = "RECONCILING"
    /\ stage' = "RECONCILING"
    /\ UNCHANGED <<fetchVars, taskVars, collected, future, snapshot, stdout, pureVars>>

\* events.sort(...); futureEvents = events.filter(...)
MainFilter ==
    /\ mainpc = "RECONCILING"
    /\ events' = SortEvents(events)
    /\ future' = SelectSeq(events', KeepFuture)
    /\ mainpc' = "FILTERING"
    /\ stage' = "FILTERING"
    /\ UNCHANGED <<fetchVars, taskVars, collected, snapshot, stdout, pureVars>>

\* one write per record instead of one write of the array
MainWriteEach ==
    /\ mainpc = "FILTERING"
    /\ stdout' = stdout \o [i \in 1..Len(future) |-> <<future[i]>>]
    /\ mainpc' = "DONE"
    /\ stage' = "DONE"
    /\ UNCHANGED <<fetchVars, taskVars, collected, events, future, snapshot, pureVars>>

\* process.stdout.write(JSON.stringify(futureEvents, null, 2))
MainWrite ==
    /\ mainpc = "FILTERING"
    /\ stdout' = Append(stdout, future)
    /\ mainpc' = "DONE"
    /\ stage' = "DONE"
    /\ UNCHANGED <<fetchVars, taskVars, collected, events, future, snapshot, pureVars>>

(* ------------------------------ a run ---------------------------------- *)
\* tasks = [scrapePolarBear(), scrapeAdelphi()]; if (!skipDive) tasks.push(...)
TaskLists == {<<"polar", "adelphi", "dive">>, <<"polar", "adelphi">>}

InList(s, ts) == \E i \in 1..Len(ts) : ts[i] = s

StaleDive ==
    [source |-> "DIVE HU5", venue |-> "DIVE HU5", url |-> <<"dive", 1>>,
     title |-> "quiz", start |-> NoStart, scrapedAt |-> 1]
StaleAdelphi ==
    [source |-> "The Adelphi Club", venue |-> "The New Adelphi Club",
     url |-> <<"adelphi", 1>>, title |-> "Gig", start |-> 0, scrapedAt |-> 1]

Snapshots == {NoSnapshot, [ok |-> TRUE, data |-> <<StaleDive, StaleAdelphi>>]}

\* main() has called every scraper of its task list: each has issued its
\* list-page fetch and main awaits Promise.allSettled(tasks)
StartRun(ts) ==
    /\ tasks = ts
    /\ tpc = [s \in Sources |-> IF InList(s, ts) THEN "list" ELSE "absent"]
    /\ req = [k \in {ListUrl(s) : s \in {x \in Sources : InList(x, ts)}} |-> NewReq(k[1])]
    /\ urls = [s \in Sources |-> <<>>]
    /\ bi = [s \in Sources |-> 0]
    /\ det = [s \in Sources |-> <<>>]
    /\ out = [s \in Sources |-> <<>>]
    /\ listRes = [s \in Sources |-> "pending"]
    /\ mainpc = "FETCHING" /\ stage = "FETCHING"
    /\ collected = <<>> /\ events = <<>> /\ future = <<>> /\ stdout = <<>>
    /\ opts = [retries |-> CallSiteRetries, retryDelayMs |-> DefaultRetryDelayMs]

\* Date.now() of the run: an instant inside the third day of the clock
RunNow == 2 * TicksPerDay + 1

\* the network of one run: it answers, and it may fail in one way
Networks == {{"200", "404", "500"}, {"200", "neterr"}, {"200", "silent"}}

Init ==
    /\ \E ts \in TaskLists : StartRun(ts)
    /\ net \in Networks
    /\ world \in [pages : {"mixed", "same"},
                  links : {[s \in Sources |-> 0..MaxLinks]},
                  now : {RunNow}]
    /\ snapshot \in Snapshots
    /\ NoPure

TaskStep(s) ==
    \/ ListEvent(s)
    \/ TaskRetry(s, 0)
    \/ \E j \in 1..Len(urls[s]) : DetailEvent(s, j) \/ DetailWake(s, j) \/ TaskRetry(s, j)
    \/ BatchDone(s)
    \/ TaskWake(s)

MainStep == MainDedup \/ MainReconcile \/ MainFilter \/ MainWrite

Next == (\E s \in Sources : TaskStep(s)) \/ MainStep

Spec == Init /\ [][Next]_vars

\* the steps the program takes by itself once they are due: a timer fires
\* (abort of an attempt, end of a backoff or of a sleep) or an await resumes
TaskOwnStep(s) ==
    \/ ListEventWith(s, "timeout")
    \/ TaskRetry(s, 0)
    \/ \E j \in 1..Len(urls[s]) :
          DetailEventWith(s, j, "timeout") \/ DetailWake(s, j) \/ TaskRetry(s, j)
    \/ BatchDone(s)
    \/ TaskWake(s)

\* a network without "silent" answers every request sooner or later
Responds == "silent" \notin net

\* Timers fire and continuations run; a response arrives for sure only in a
\* network that answers every request.
Fairness ==
    /\ \A s \in Sources : WF_vars(TaskOwnStep(s) \/ (Responds /\ TaskStep(s)))
    /\ WF_vars(MainStep)

FairSpec == Spec /\ Fairness

(* ------------------------- claims about a run --------------------------- *)
\* no promise of main's task list is pending
EveryTaskSettled == \A i \in 1..Len(tasks) : tpc[tasks[i]] \in {"fulfilled", "rejected"}

TaskIndex(ev) == CHOOSE i \in 1..Len(tasks) : SourceName(tasks[i]) = ev.source

FulfilledTasks == {s \in Sources : InList(s, tasks) /\ tpc[s] = "fulfilled"}

RECURSIVE SumLen(_)
SumLen(S) ==
    IF S = {} THEN 0
    ELSE LET s == CHOOSE x \in S : TRUE IN Len(out[s]) + SumLen(S \ {s})

C1_State ==
    /\ (mainpc = "FETCHING" /\ EveryTaskSettled) => ENABLED MainDedup
    /\ mainpc # "FETCHING" =>
          /\ \A s \in FulfilledTasks : \A k \in 1..Len(out[s]) :
                \E i \in 1..Len(collected) : collected[i] = out[s][k]
          /\ \A i \in 1..Len(collected) :
                \E s \in FulfilledTasks : \E k \in 1..Len(out[s]) : collected[i] = out[s][k]
          /\ Len(collected) = SumLen(FulfilledTasks)
          /\ \A i, j \in 1..Len(collected) :
                i < j => TaskIndex(collected[i]) <= TaskIndex(collected[j])

C1_Step ==
    \A s \in Sources :
        (tpc[s] # "rejected" /\ tpc'[s] = "rejected") =>
            \A t \in Sources \ {s} :
                /\ tpc'[t] = tpc[t] /\ out'[t] = out[t] /\ det'[t] = det[t]
                /\ \A k \in DOMAIN req :
                      k[1] = t => (k \in DOMAIN req' /\ req'[k] = req[k])

\* C1: main awaits all source tasks with all-settled semantics. Once they
\* have settled it collects every record of every fulfilled task, in task
\* order, and nothing from a rejected task; a rejection leaves the other
\* tasks' records and fetches in flight untouched, and the run still goes
\* on to deduplication and output.
C1_AllSettledIsolation == []C1_State /\ [][C1_Step]_vars

C1_Witness ==
    /\ mainpc = "DONE"
    /\ tpc["adelphi"] = "rejected"
    /\ tpc["polar"] = "fulfilled" /\ out["polar"] # <<>>
    /\ collected = out["polar"] \o out["dive"]
    /\ Len(stdout) = 1

\* the run has a fetch of a detail page of s, in flight or consumed
HasDetail(s) == det[s] # <<>> \/ \E k \in DOMAIN req : k[1] = s /\ k[2] >= 1

StageRank(st) ==
    CASE st = "FETCHING" -> 1
      [] st = "RESOLVING" -> 2
      [] st = "BUILDING" -> 3
      [] st = "DEDUPING" -> 4
      [] st = "RECONCILING" -> 5
      [] st = "FILTERING" -> 6
      [] OTHER -> 7

\* C7 as stated: the run moves through FETCHING, RESOLVING, BUILDING,
\* DEDUPING, RECONCILING, FILTERING, DONE only in that order with no
\* backward transition, and it leaves FETCHING for DEDUPING once every
\* source task has settled, whether or not some failed.
C7_StagesInOrder ==
    /\ [][StageRank(stage') >= StageRank(stage)]_vars
    /\ []((mainpc = "FETCHING" /\ EveryTaskSettled) => ENABLED MainDedup)

\* C7: main passes through FETCHING, DEDUPING, RECONCILING, FILTERING, DONE
\* one after the other and never goes back; records are resolved and built
\* inside the source tasks while main is in FETCHING, interleaved with
\* further fetches; main leaves FETCHING exactly when every source task has
\* settled, whether or not some of them failed or were rejected.
C7_MainStagesInOrder ==
    /\ [][mainpc' # mainpc => StageRank(mainpc') > StageRank(mainpc)]_vars
    /\ [][(stage = "BUILDING" \/ stage' = "BUILDING") => mainpc = "FETCHING"]_vars
    /\ [](mainpc # "FETCHING" => EveryTaskSettled)
    /\ []((mainpc = "FETCHING" /\ EveryTaskSettled) => ENABLED MainDedup)

C7_Witness ==
    /\ mainpc = "DEDUPING"
    /\ listRes["polar"] = "failed"
    /\ tpc["adelphi"] = "rejected"
    /\ tpc["dive"] = "fulfilled" /\ out["dive"] # <<>>

\* C4 as stated: every run reaches DONE; no request that goes unanswered
\* keeps the run from getting there.
C4_EveryRunReachesDone == <>(mainpc = "DONE")

(* ------------------------- one source on its own ------------------------ *)
\* scrapeAdelphi or scrapeDiveHU5 run as main's only task, on a list page
\* that yields more detail links than one batch holds
InitBatch ==
    /\ \E s \in {"adelphi", "dive"} : StartRun(<<s>>)
    /\ net \in Networks
    /\ world = [pages |-> "mixed",
                links |-> [s \in Sources |-> (Batch(s) + 1)..(Batch(s) + MaxExtra)],
                now |-> RunNow]
    /\ snapshot = NoSnapshot
    /\ NoPure

SpecBatch == InitBatch /\ [][Next]_vars

\* the detail fetches of s that have been started and not yet consumed
InFlight(s) == {k \in DOMAIN req : k[1] = s /\ k[2] >= 1}

\* the number of the batch that holds the j-th URL
BatchOf(s, j) == (j - 1) \div Batch(s)

\* the URLs whose fetch did not throw and whose page yields a record
Yielding(s) ==
    {j \in 1..Len(urls[s]) :
        /\ ~det[s][j].threw
        /\ DetailResult(s, urls[s][j], PageOf(world.pages, world.now, urls[s][j])) # <<>>}

\* C6: a batch crawler never has more detail fetches in flight than its
\* batch size; a URL of batch k+1 is not fetched before every fetch of batch
\* k has settled; a URL whose fetch fails yields no record and does not keep
\* the other URLs, of its batch or of later ones, from yielding theirs.
C6_BatchDiscipline ==
    \A s \in {"adelphi", "dive"} :
        /\ Cardinality(InFlight(s)) <= Batch(s)
        /\ \A j \in DOMAIN det[s] :
              det[s][j].st # "idle" =>
                  \A i \in DOMAIN det[s] :
                      BatchOf(s, i) < BatchOf(s, j) =>
                          (det[s][i].st = "settled" /\ <<s, i>> \notin DOMAIN req)
        /\ \A j \in DOMAIN det[s] : det[s][j].threw => det[s][j].val = <<>>
        /\ (tpc[s] = "fulfilled" /\ listRes[s] = "returned") =>
              out[s] = [k \in 1..Cardinality(Yielding(s)) |->
                           BuiltRecord(s, urls[s][Nth(Yielding(s), k)],
                               PageOf(world.pages, world.now, urls[s][Nth(Yielding(s), k)]))]

C6_Witness ==
    /\ tpc["dive"] = "fulfilled"
    /\ Len(urls["dive"]) = DiveBatch + 1
    /\ det["dive"][1].threw
    /\ det["dive"][2].val # <<>>
    /\ det["dive"][DiveBatch + 1].val # <<>>
    /\ Len(out["dive"]) = 4

(* --------------------------- reconciliation ----------------------------- *)
U1 == <<"dive", 1>>
U2 == <<"dive", 2>>

DiveRecord(u, t, st, at) ==
    [source |-> "DIVE HU5", venue |-> "DIVE HU5", url |-> u, title |-> t, start |-> st,
     scrapedAt |-> at]

\* what this run can have scraped: records of U1 and a record without URL
FreshRecords ==
    {DiveRecord(U1, t, st, RunNow) : t \in {"Gig", "quiz"}, st \in {NoStart, RunNow}}
        \cup {DiveRecord(NoUrl, "Gig", RunNow, RunNow)}

\* what an earlier run can have written: records of U1, of U2, without URL
OldRecords ==
    {DiveRecord(u, t, st, 1) : u \in {U1, U2}, t \in {"Gig", "quiz"}, st \in {NoStart, RunNow}}
        \cup {DiveRecord(NoUrl, "quiz", NoStart, 1)}

KeyUnique(evs) == \A i, j \in 1..Len(evs) : DedupKey(evs[i]) = DedupKey(evs[j]) => i = j

HasUrl(evs, u) == \E i \in 1..Len(evs) : evs[i].url = u

\* main has deduplicated the scrape results N (kept in xs for reference);
\* events.json holds S, the output of an earlier run, with a stale record of U1
InitReconcile ==
    /\ xs \in {n \in SeqsUpTo(FreshRecords, 2) : KeyUnique(n) /\ HasUrl(n, U1)}
    /\ \E S \in {d \in SeqsUpTo(OldRecords, MaxLen) : KeyUnique(d) /\ HasUrl(d, U1)} :
          snapshot = [ok |-> TRUE, data |-> S]
    /\ events = xs /\ collected = xs
    /\ mainpc = "DEDUPING" /\ stage = "DEDUPING"
    /\ future = <<>> /\ stdout = <<>>
    /\ tasks = <<>> /\ tpc = <<>> /\ urls = <<>> /\ bi = <<>> /\ det = <<>> /\ out = <<>>
    /\ listRes = <<>>
    /\ opts = [retries |-> DefaultRetries, retryDelayMs |-> DefaultRetryDelayMs]
    /\ net = {} /\ req = <<>>
    /\ world = [pages |-> "none", links |-> <<>>, now |-> RunNow]
    /\ ppc = "none" /\ ys = <<>> /\ zs = <<>>

NextReconcile == MainReconcile \/ MainFilter \/ MainWrite

SpecReconcile == InitReconcile /\ [][NextReconcile]_vars

InEvents(r) == \E i \in 1..Len(events) : events[i] = r

Scraped(u) == u \in NewEventUrls(xs)

\* S: the records of the snapshot
SnapData == snapshot.data

\* C10 as stated: after a scrape returned a URL and the cached snapshot was
\* reconciled, the result holds the fresh record of that URL, not the
\* snapshot's stale one, and every other record of the snapshot unchanged.
C10_RoundTrip ==
    mainpc = "RECONCILING" =>
        /\ \A i \in 1..Len(xs) : InEvents(xs[i])
        /\ \A i \in 1..Len(SnapData) : Scraped(SnapData[i].url) => ~InEvents(SnapData[i])
        /\ \A i \in 1..Len(SnapData) : ~Scraped(SnapData[i].url) => InEvents(SnapData[i])

\* C10: the result holds every freshly scraped record and no snapshot record
\* of a scraped URL; a snapshot record of another URL (or of none) is there
\* unchanged exactly when no scraped record has its deduplication key: the
\* second deduplication drops it otherwise, the scraped record coming first.
C10_RoundTripUpToKeys ==
    mainpc = "RECONCILING" =>
        /\ \A i \in 1..Len(xs) : InEvents(xs[i])
        /\ \A i \in 1..Len(SnapData) : Scraped(SnapData[i].url) => ~InEvents(SnapData[i])
        /\ \A i \in 1..Len(SnapData) :
              ~Scraped(SnapData[i].url) =>
                  (InEvents(SnapData[i]) <=>
                      \A k \in 1..Len(xs) : ClaimKey(xs[k]) # ClaimKey(SnapData[i]))
        /\ Len(events) <= Len(xs) + Len(SnapData)

C10_Witness ==
    /\ mainpc = "RECONCILING"
    /\ Len(SnapData) = 3 /\ Len(xs) = 1
    /\ SnapData[1].url = U1 /\ SnapData[2].url = U2 /\ SnapData[3].url = U2
    /\ ClaimKey(SnapData[2]) = ClaimKey(xs[1])
    /\ events = <<xs[1], SnapData[3]>>

(* ------------------ the pipeline behind the source tasks ---------------- *)
\* the start of the day of the run
DayStart == DateOf(RunNow) * TicksPerDay

PolarRecord(u, t, st, at) ==
    [source |-> "Polar Bear Music Club", venue |-> "Polar Bear Music Club", url |-> u,
     title |-> t, start |-> st, scrapedAt |-> at]

\* what scrapePolarBear can return: nothing, or one record that passed its
\* past filter (undated, of today's midnight, of tomorrow)
PolarOuts ==
    {<<>>} \cup {<<PolarRecord(<<"polar", 1>>, "Gig", st, RunNow)>> :
                    st \in {NoStart, DayStart, RunNow + TicksPerDay}}

DiveFresh ==
    {DiveRecord(u, t, st, RunNow) :
        u \in {U1, U2}, t \in {"Gig", "gig"}, st \in {NoStart, DayStart, RunNow}}

\* what scrapeDiveHU5 can return: one record at most per detail URL
DiveOuts ==
    {o \in SeqsUpTo(DiveFresh, 2) : \A i, j \in 1..Len(o) : o[i].url = o[j].url => i = j}

\* events.json of an earlier run: absent, or one record of U2
PipeSnapshots ==
    {NoSnapshot} \cup
    {[ok |-> TRUE, data |-> <<DiveRecord(U2, "quiz", st, 1)>>] :
        st \in {NoStart, DayStart - 1, RunNow}}

\* every source task has settled and main's await is about to resume
InitPipeline ==
    /\ tasks = <<"polar", "adelphi", "dive">>
    /\ tpc = [s \in Sources |-> "fulfilled"]
    /\ \E po \in PolarOuts, do \in DiveOuts :
          out = [s \in Sources |-> CASE s = "polar" -> po [] s = "dive" -> do [] OTHER -> <<>>]
    /\ urls = [s \in Sources |-> <<>>]
    /\ bi = [s \in Sources |-> 0]
    /\ det = [s \in Sources |-> <<>>]
    /\ listRes = [s \in Sources |-> "returned"]
    /\ req = <<>>
    /\ net = {"200"}
    /\ opts = [retries |-> CallSiteRetries, retryDelayMs |-> DefaultRetryDelayMs]
    /\ world = [pages |-> "none", links |-> <<>>, now |-> RunNow]
    /\ snapshot \in PipeSnapshots
    /\ mainpc = "FETCHING" /\ stage = "FETCHING"
    /\ collected = <<>> /\ events = <<>> /\ future = <<>> /\ stdout = <<>>
    /\ NoPure

SpecPipeline == InitPipeline /\ [][MainStep]_vars

\* a record of the reconciled set that comes from the snapshot
IsStale(ev) == ev.scrapedAt # RunNow

\* C11: a stale record never replaces or accompanies a fresh one: the
\* reconciled set holds no snapshot record with the URL of a record built
\* in this run (one removed by the first deduplication included), and no
\* snapshot record with the deduplication key of a record built in this run.
C11_NoStaleBesideFresh ==
    mainpc = "RECONCILING" =>
        \A i \in 1..Len(events) :
            IsStale(events[i]) =>
                \A k \in 1..Len(collected) :
                    /\ collected[k].url = NoUrl \/ collected[k].url # events[i].url
                    /\ ClaimKey(collected[k]) # ClaimKey(events[i])

InFuture(ev) == \E i \in 1..Len(future) : future[i] = ev

\* C12: the final filter keeps a dated record exactly when its start is at
\* or after the cutoff (the start of the day of the run), and keeps every
\* undated record, whatever the time of day of the run.
C12_CutoffFilter ==
    mainpc \in {"FILTERING", "DONE"} =>
        \A i \in 1..Len(events) :
            InFuture(events[i]) <=> (~HasStart(events[i]) \/ events[i].start >= CUTOFF)

\* C13: the array written to stdout is ordered by start ascending with the
\* undated records behind all dated ones.
C13_SortedByStart ==
    mainpc = "DONE" =>
        \A i, j \in 1..Len(stdout[1]) :
            i < j =>
                \/ ~HasStart(stdout[1][j])
                \/ (HasStart(stdout[1][i]) /\ stdout[1][i].start <= stdout[1][j].start)

(* --------------------------- resolveAddress ----------------------------- *)
\* Object.keys(VENUE_ADDR), in the order of the table, for the venues of the
\* model
VenueAddrKeys ==
    <<"polar bear music club", "the new adelphi club", "dive hu5", "polar bear",
      "adelphi", "mr moody's tavern">>

VENUE_ADDR(k) ==
    CASE k \in {"polar bear music club", "polar bear"} -> "229 Spring Bank, Hull, HU3 1LR"
      [] k \in {"the new adelphi club", "adelphi"} -> "89 De Grey Street, Hull, HU5 2RU"
      [] k = "dive hu5" -> "Unit 1, 78 Princes Ave, Hull HU5 3QJ"
      [] OTHER -> "6 Newland Ave, Hull HU5 3AF"

IsKey(k) == \E i \in 1..Len(VenueAddrKeys) : VenueAddrKeys[i] = k

\* VENUE_ADDR is an object literal: a lookup also finds what it inherits
\* from Object.prototype, and both inherited values are truthy
InheritedKeys == {"constructor", "__proto__"}

InheritedValue(k) == IF k = "constructor" THEN "function Object" ELSE "[object Object]"

\* v.includes(k) on the lowercased names of the model
Includes(v, k) ==
    \/ v = k
    \/ v = "the new adelphi club" /\ k = "adelphi"
    \/ v = "the adelphi club" /\ k = "adelphi"
    \/ v = "polar bear music club" /\ k = "polar bear"

\* /\bHU\d+\s*\d?[A-Z]{2}\b/i.test(clean) || /Hull/i.test(clean)
LooksComplete(clean) == clean \in {"1 Main St, Hull", "Flat 2, HU5 3AA"}

\* allKeys.find((k) => v.includes(k)): the first such key, or none
FindKey(v) ==
    LET hits == {i \in 1..Len(VenueAddrKeys) : Includes(v, VenueAddrKeys[i])}
    IN  IF hits = {} THEN <<>>
        ELSE <<VenueAddrKeys[CHOOSE i \in hits : \A j \in hits : i <= j]>>

resolveAddress(rawAddress, venue, source) ==
    LET clean == NormalizeWs(rawAddress)
        v == LowerStr(NormalizeWs(venue))
        s == LowerStr(NormalizeWs(source))
        Direct(n) == IF IsKey(n) THEN <<VENUE_ADDR(n)>>
                     ELSE IF n \in InheritedKeys THEN <<InheritedValue(n)>>
                     ELSE <<>>
        hit == IF FindKey(v) # <<>> THEN FindKey(v) ELSE FindKey(s)
    IN  IF LooksComplete(clean) THEN clean
        ELSE IF Direct(v) # <<>> THEN Direct(v)[1]
        ELSE IF Direct(s) # <<>> THEN Direct(s)[1]
        ELSE IF hit # <<>> THEN VENUE_ADDR(hit[1])
        ELSE clean

(* ------------------- build, merge, deduplicate -------------------------- *)
\* longest list of candidates handed to the merge
MaxGroup == 3

Tk(u) == [label |-> "", url |-> u]

\* the link of a row of the Mr Moody's spreadsheet
MoodyUrl == <<"moodys", 1>>

\* a raw candidate as an extractor hands it to buildEvent
Cand(v, t, st, u, tk) ==
    [source |-> v, venue |-> v, url |-> u, title |-> t, start |-> st, tickets |-> tk,
     address |-> ""]

\* the spreadsheet's and the generator's Sunday Lunch of one day, with and
\* without a ticket, at Mr Moody's and at another venue; a stray spelling of
\* Mr Moody's with a URL and doubled tickets; records no group takes in
MergeCandidates ==
    {Cand(v, "Sunday Lunch", DayStart, NoUrl, tk) :
        v \in {"Mr Moody's Tavern", "The Tavern"}, tk \in {<<>>, <<Tk("t1")>>}}
    \cup {Cand("Mr Moodys", "Sunday Lunch", DayStart + 1, MoodyUrl,
               <<Tk(" t1"), Tk("t1"), Tk(""), Tk(" "), Tk("t2")>>),
          Cand("Mr Moody's Tavern", "Gig", DayStart, NoUrl, <<Tk("t2")>>),
          Cand("Mr Moody's Tavern", "Sunday Lunch", NoStart, NoUrl, <<>>),
          Cand("Mr Moody's Tavern", "Sunday Lunch", DayStart + TicksPerDay, NoUrl,
               <<Tk("t2"), Tk("t1 ")>>)}

\* buildEvent, as far as merge and deduplication read its record; the
\* display time comes from the resolved start
buildEvent(c) ==
    [source |-> NormalizeWs(c.source), venue |-> NormalizeWs(c.venue), url |-> c.url,
     title |-> NormalizeWs(c.title), start |-> c.start, scrapedAt |-> RunNow,
     tickets |-> CleanTickets(c.tickets),
     address |-> resolveAddress(NormalizeWs(c.address), NormalizeWs(c.venue),
                                NormalizeWs(c.source)),
     displayTime24 |-> IF c.start = NoStart THEN NoTime ELSE c.start % TicksPerDay]

InitMerge ==
    /\ xs \in SeqsUpTo(MergeCandidates, MaxGroup)
    /\ ppc = "in" /\ ys = <<>> /\ zs = <<>>
    /\ NoFetch
    /\ Idle

\* every extractor's candidates go through buildEvent
BuildAll ==
    /\ ppc = "in"
    /\ ys' = [i \in 1..Len(xs) |-> buildEvent(xs[i])]
    /\ ppc' = "built"
    /\ UNCHANGED <<fetchVars, taskVars, mainVars, xs, zs>>

\* events = mergeMoodysSundayDuplicates(events)
MergeCall ==
    /\ ppc = "built"
    /\ zs' = mergeMoodysSundayDuplicates(ys)
    /\ ppc' = "merged"
    /\ UNCHANGED <<fetchVars, taskVars, mainVars, xs, ys>>

\* the canonical names, then events = deduplicateEvents(events)
MergeDedup ==
    /\ ppc = "merged"
    /\ events' = deduplicateEvents(Canonicalise(zs))
    /\ ppc' = "deduped"
    /\ UNCHANGED <<fetchVars, taskVars, mainpc, stage, collected, future, snapshot,
                   stdout, xs, ys, zs>>

NextMerge == BuildAll \/ MergeCall \/ MergeDedup

SpecMerge == InitMerge /\ [][NextMerge]_vars

\* the two candidates are one event, the first without tickets and the
\* second with the one ticket URL u
SameEventOneTicket(a, b, u) ==
    /\ a.title = b.title /\ a.venue = b.venue /\ a.start = b.start /\ a.start # NoStart
    /\ a.tickets = <<>>
    /\ b.tickets = <<Tk(u)>>

\* C14: two sources report the same title, venue and start, one without
\* tickets and one with a ticket URL: in either order of arrival, and for
\* any title and venue, merge and deduplication leave exactly one record,
\* and it carries the ticket URL.
C14_OneRecordWithTicket ==
    (ppc = "deduped" /\ Len(xs) = 2) =>
        \A i, j \in 1..2 : \A u \in {"t1", "t2"} :
            SameEventOneTicket(xs[i], xs[j], u) =>
                /\ Len(events) = 1
                /\ \E k \in 1..Len(events[1].tickets) : events[1].tickets[k].url = u

\* the record at position i of the merge's input is in a group of two or
\* more: a dated Mr Moody's Sunday Lunch with another one on its day
InGroup(evs, i) ==
    LET IsLunch(j) == /\ MatchesMoody(evs[j].venue)
                      /\ isSundayLunchTitle(evs[j].title)
                      /\ evs[j].start # NoStart
    IN  /\ IsLunch(i)
        /\ \E j \in 1..Len(evs) :
              j # i /\ IsLunch(j) /\ DateOf(evs[j].start) = DateOf(evs[i].start)

\* the fields the merge is said to leave alone
Core(ev) == <<ev.source, ev.venue, ev.url, ev.title, ev.start, ev.scrapedAt, ev.address>>

UniqueUrls(tk) == \A a, b \in 1..Len(tk) : tk[a].url = tk[b].url => a = b

\* the raw entries buildEvent keeps: those that have a URL and are the first
\* with it, URLs compared after trimming
KeptRaw(raw) ==
    {a \in 1..Len(raw) :
        /\ raw[a].url # ""
        /\ \A b \in 1..(a - 1) :
              raw[b].url = "" \/ TrimStr(raw[b].url) # TrimStr(raw[a].url)}

\* C16: no record holds two tickets with the same URL: buildEvent drops
\* the entries without URL and keeps the first entry of every trimmed URL,
\* and the tickets that mergeMoodysSundayDuplicates unions onto a survivor
\* have distinct URLs too.
C16_TicketsUnique ==
    /\ ppc \in {"built", "merged", "deduped"} =>
          \A i \in 1..Len(ys) :
              /\ UniqueUrls(ys[i].tickets)
              /\ Len(ys[i].tickets) = Cardinality(KeptRaw(xs[i].tickets))
              /\ \A k \in 1..Len(ys[i].tickets) :
                    ys[i].tickets[k].url = TrimStr(xs[i].tickets[Nth(KeptRaw(xs[i].tickets), k)].url)
    /\ ppc \in {"merged", "deduped"} =>
          \A k \in 1..Len(zs) : UniqueUrls(zs[k].tickets)

C16_Witness ==
    /\ ppc = "merged"
    /\ Len(xs) = 2 /\ Len(zs) = 1
    /\ Len(xs[2].tickets) = 5 /\ Len(ys[2].tickets) = 3
    /\ ys[1].tickets = <<[label |-> "Tickets", url |-> "t1"]>>
    /\ zs[1].tickets = <<[label |-> "Tickets", url |-> "t1"], [label |-> "Tickets", url |-> "t2"]>>

(* ------------------------- addresses of records ------------------------- *)
AddressNames == {"Adelphi", "The Adelphi Club", "DIVE HU5", "Hoi", "constructor", ""}

RawAddresses == {"", " 12 High St ", "1 Main St, Hull", "Flat 2, HU5 3AA"}

\* one candidate: any venue name, any source name, any raw address
InitAddress ==
    /\ xs \in {<<[Cand(v, "Gig", NoStart, NoUrl, <<>>) EXCEPT !.source = s, !.address = a]>> :
                  v \in AddressNames, s \in AddressNames, a \in RawAddresses}
    /\ ppc = "in" /\ ys = <<>> /\ zs = <<>>
    /\ NoFetch
    /\ Idle

SpecAddress == InitAddress /\ [][BuildAll]_vars

\* a name equals a key of VENUE_ADDR, whatever its case, or contains one
MatchesAlias(n) ==
    \E i \in 1..Len(VenueAddrKeys) : Includes(LowerStr(n), VenueAddrKeys[i])

TableEntries == {VENUE_ADDR(VenueAddrKeys[i]) : i \in 1..Len(VenueAddrKeys)}

Year1930 == 0
Epoch == 1

\* 19 September 2025 at midnight and at 19:30, in ticks
Sep19 == DayStart
Sep19Evening == DayStart + 1

\* outcomes of one step of the resolution
None == [kind |-> "none", at |-> NoStart]
At(t) == [kind |-> "at", at |-> t]
Threw == [kind |-> "threw", at |-> NoStart]

\* a startISO argument: left out, null, a text that is no date, or a
\* timestamp of an instant
Trusted(k, t) == [kind |-> k, at |-> t]

\* new Date(d).getTime() of a startISO argument; NoStart stands for NaN
NewDate(d) ==
    CASE d.kind = "iso" -> d.at
      [] d.kind = "null" -> Epoch
      [] OTHER -> NoStart

\* toISO of a startISO argument
toISO(d) == IF NewDate(d) = NoStart THEN None ELSE At(NewDate(d))

\* to24h: "" stands for null; a time needs am/pm or a colon
to24h(raw) ==
    CASE raw = "19:30" -> "19:30"
      [] raw = "7:30pm" -> "19:30"
      [] OTHER -> ""

\* dayjs.tz(text, format, zone) of a text the format does not match: the
\* parse is an Invalid Date, which the zone arithmetic of the library either
\* carries through (toISO then gives null) or rejects with a RangeError
Unparsed(lib) == IF lib = "throws" THEN Threw ELSE None

\* step 2, dayjs.tz(`${dTxt} ${t24}`, [four formats], tz): the formats are
\* tried inside one parse, so one mismatch does not end the call
StrictParse(dTxt, t24, lib) ==
    IF dTxt = "19/9/2025" /\ t24 = "19:30" THEN At(Sep19Evening) ELSE Unparsed(lib)

\* parseDMYWithTime: null without a date; else one dayjs.tz call per
\* format, in order, the first of which ("DD/MM/YYYY HH:mm:ss") matches
\* none of the texts here
parseDMYWithTime(dTxt, tTxt, lib) ==
    CASE dTxt = "" -> None
      [] lib = "throws" -> Threw
      [] dTxt = "19/9/2025" /\ tTxt = "" -> At(Sep19)
      [] OTHER -> None

\* /\d/ on the texts of the model
HasDigit(t) ==
    t \in {"19:30", "7:30pm", "1930", "19/9/2025", "19/9/2025 19:30", "19/9/2025 7:30pm",
           "Friday 19:30"}

\* tryParseDateFromText: null for an empty text and for one with neither a
\* digit nor a month name; else one dayjs.tz call per format, the first
\* of which ("YYYY-MM-DD") matches none of the texts here; the last
\* resort dayjs.tz(cleaned, TZ) reads four digits as a year
tryParseDateFromText(text, lib) ==
    CASE NormalizeWs(text) = "" -> None
      [] ~HasDigit(NormalizeWs(text)) -> None
      [] lib = "throws" -> Threw
      [] NormalizeWs(text) = "1930" -> At(Year1930)
      [] NormalizeWs(text) = "19/9/2025" -> At(Sep19)
      [] OTHER -> None

\* `${dTxt} ${tTxt}` on the texts of the model
Joined(dTxt, tTxt) ==
    CASE dTxt = "" /\ tTxt = "" -> " "
      [] dTxt = "" /\ tTxt = "19:30" -> " 19:30"
      [] dTxt = "" /\ tTxt = "7:30pm" -> " 7:30pm"
      [] dTxt = "" /\ tTxt = "1930" -> " 1930"
      [] dTxt = "" /\ tTxt = "TBC" -> " TBC"
      [] dTxt = "19/9/2025" /\ tTxt = "" -> "19/9/2025 "
      [] dTxt = "19/9/2025" /\ tTxt = "19:30" -> "19/9/2025 19:30"
      [] dTxt = "19/9/2025" /\ tTxt = "7:30pm" -> "19/9/2025 7:30pm"
      [] dTxt = "Friday" /\ tTxt = "" -> "Friday "
      [] OTHER -> "Friday 19:30"

\* the four steps of buildEvent's start resolution, each as the guard of its
\* own if and the call under it; None when the guard is false
Step1(c) == toISO(c.startISO)

Step2(c) ==
    IF NormalizeWs(c.dateText) # "" /\ to24h(NormalizeWs(c.timeText)) # ""
    THEN StrictParse(NormalizeWs(c.dateText), to24h(NormalizeWs(c.timeText)), c.lib)
    ELSE None

Step3(c) ==
    IF NormalizeWs(c.dateText) # "" \/ NormalizeWs(c.timeText) # ""
    THEN parseDMYWithTime(NormalizeWs(c.dateText), NormalizeWs(c.timeText), c.lib)
    ELSE None

Step4(c) ==
    IF NormalizeWs(c.dateText) # "" \/ NormalizeWs(c.timeText) # ""
    THEN tryParseDateFromText(Joined(NormalizeWs(c.dateText), NormalizeWs(c.timeText)), c.lib)
    ELSE None

StepOutcome(c, i) ==
    CASE i = 1 -> Step1(c) [] i = 2 -> Step2(c) [] i = 3 -> Step3(c) [] OTHER -> Step4(c)

\* the steps whose if-body runs when the earlier steps gave the outcomes so
\* far, and the value of `start` after them; a throw ends buildEvent
RECURSIVE CascadeAll(_, _, _)
CascadeAll(c, i, acc) ==
    IF i > 4 \/ acc.start.kind = "threw" THEN acc
    ELSE CascadeAll(c, i + 1,
            [start |-> IF StepOutcome(c, i).kind = "none" THEN acc.start ELSE StepOutcome(c, i),
             ran |-> acc.ran \cup {i}])

RECURSIVE Cascade(_, _, _)
Cascade(c, i, acc) ==
    IF i > 4 \/ acc.start.kind = "threw" THEN acc
    ELSE IF acc.start.kind = "at" THEN Cascade(c, i + 1, acc)
    ELSE Cascade(c, i + 1, [start |-> StepOutcome(c, i), ran |-> acc.ran \cup {i}])

\* let start = toISO(startISO), then `if (!start ...)` three times
ResolveStartLastWins(c) == CascadeAll(c, 1, [start |-> None, ran |-> {}])

ResolveStart(c) == Cascade(c, 1, [start |-> None, ran |-> {}])

TrustedArgs ==
    {Trusted(k, NoStart) : k \in {"undefined", "null", "garbage"}}
    \cup {Trusted("iso", t) : t \in {Epoch, Sep19, Sep19Evening, Sep19 + TicksPerDay}}

\* the date and time texts of a page: none, a time only, a bare number, a
\* word, a full date with and without a time, a weekday
PageTexts ==
    {<<"", "">>, <<"", "19:30">>, <<"", " 7:30pm">>, <<"", "1930">>, <<"", "TBC">>,
     <<"19/9/2025", "19:30">>, <<"19/9/2025 ", "7:30pm">>, <<"19/9/2025", "">>,
     <<"Friday", "">>, <<"Friday ", " 19:30">>}

InitResolve ==
    /\ xs \in {[startISO |-> a, dateText |-> p[1], timeText |-> p[2], lib |-> l] :
                  a \in TrustedArgs, p \in PageTexts, l \in {"invalid", "throws"}}
    /\ ppc = "in" /\ ys = <<>> /\ zs = <<>>
    /\ NoFetch
    /\ Idle

\* buildEvent's start resolution on one candidate
ResolveCall ==
    /\ ppc = "in"
    /\ ys' = ResolveStart(xs)
    /\ ppc' = "resolved"
    /\ UNCHANGED <<fetchVars, taskVars, mainVars, xs, zs>>

SpecResolve == InitResolve /\ [][ResolveCall]_vars

\* the first step, in the order 1..4, whose own outcome is not None; 5 if none
FirstYield(c) ==
    IF \E i \in 1..4 : StepOutcome(c, i).kind # "none"
    THEN CHOOSE i \in 1..4 :
            /\ StepOutcome(c, i).kind # "none"
            /\ \A j \in 1..(i - 1) : StepOutcome(c, j).kind = "none"
    ELSE 5

C19_NoInventedDate ==
    (/\ ppc = "resolved"
     /\ xs.startISO.kind # "iso"
     /\ NormalizeWs(xs.dateText) = "") => ys.start.kind # "at"

(* --------------------------- inferYearAndTime --------------------------- *)
\* calendar days are <<year, month, day>>; NaN stands for the year of an
\* Invalid Date
NaN == -1

NoDayMonth == <<>>

\* stripOrdinals, commas to blanks, trim: the texts of the model
CleanDate(t) ==
    CASE t = "5th November," -> "5 November"
      [] t = " 5/11" -> "5/11"
      [] OTHER -> t

\* /\b\d{4}\b/ on the texts of the model
HasYear(t) == t \in {"5/11/2025"}

\* the match of (A), /\b(\d{1,2})[\/\-.](\d{1,2})\b/, as <<d, mo>>
NumericDayMonth(t) ==
    CASE t = "5/11" -> <<5, 11>>
      [] t = "3/11" -> <<3, 11>>
      [] t = "2/11" -> <<2, 11>>
      [] t = "31/12" -> <<31, 12>>
      [] t = "1/1" -> <<1, 1>>
      [] t = "13/13" -> <<13, 13>>
      [] OTHER -> NoDayMonth

\* the match of (B), a day number and a word, with the word's index among
\* the month prefixes plus one; 0 when the word is no month
NamedDayMonth(t) ==
    CASE t = "5 Nov" -> <<5, 11>>
      [] t = "5 November" -> <<5, 11>>
      [] t = "2 Nov" -> <<2, 11>>
      [] t = "5 Bands" -> <<5, 0>>
      [] OTHER -> NoDayMonth

\* the day and month the function takes from a cleaned text, (A) before (B)
DayMonthOf(t) ==
    IF /\ NumericDayMonth(t) # NoDayMonth
       /\ NumericDayMonth(t)[1] >= 1 /\ NumericDayMonth(t)[1] <= 31
       /\ NumericDayMonth(t)[2] >= 1 /\ NumericDayMonth(t)[2] <= 12
    THEN NumericDayMonth(t)
    ELSE IF /\ NamedDayMonth(t) # NoDayMonth
            /\ NamedDayMonth(t)[1] >= 1 /\ NamedDayMonth(t)[1] <= 31
            /\ NamedDayMonth(t)[2] # 0
    THEN NamedDayMonth(t)
    ELSE NoDayMonth

\* const today = dayjs.tz(TZ): the first parameter of dayjs.tz is the text
\* of a date, and the name of the zone is no date, so `today` is an Invalid
\* Date where the library carries one through and a RangeError where its
\* zone arithmetic rejects one
TodayYear(lib) == NaN

\* cand: the day and month in `year`; an Invalid Date (<<>>) without a year
CandOf(year, dm) == IF year = NaN THEN <<>> ELSE <<year, dm[2], dm[1]>>

\* cand.isBefore(CUTOFF); false of an Invalid Date
IsBefore(cand, cutoff) ==
    /\ cand # <<>>
    /\ \/ cand[1] < cutoff[1]
       \/ cand[1] = cutoff[1] /\ cand[2] < cutoff[2]
       \/ cand[1] = cutoff[1] /\ cand[2] = cutoff[2] /\ cand[3] < cutoff[3]

AddYear(cand) == <<cand[1] + 1, cand[2], cand[3]>>

\* timeText?.trim() || "20:00"
TimeOrDefault(t) == IF TrimStr(t) = "" THEN "20:00" ELSE TrimStr(t)

\* the result: the date as text ("Invalid Date" is what format gives of
\* an Invalid Date) or as the day cand.format("D/M/YYYY") writes
Inferred(kind, text, day, time) == [kind |-> kind, dateText |-> text, day |-> day, timeText |-> time]

inferYearAndTime(dateText, timeText, cutoff, lib) ==
    LET clean == CleanDate(dateText)
        dm == DayMonthOf(clean)
        cand == CandOf(TodayYear(lib), dm)
        later == IF IsBefore(cand, cutoff) THEN AddYear(cand) ELSE cand
    IN  CASE clean = "" -> Inferred("text", dateText, <<>>, timeText)
          [] HasYear(clean) -> Inferred("text", clean, <<>>, timeText)
          [] lib = "throws" -> Inferred("threw", "", <<>>, "")
          [] dm = NoDayMonth -> Inferred("text", clean, <<>>, timeText)
          [] later = <<>> -> Inferred("text", "Invalid Date", <<>>, TimeOrDefault(timeText))
          [] OTHER -> Inferred("day", "", later, TimeOrDefault(timeText))

\* the date cells of a sheet
DateCells ==
    {"", "5/11/2025", "5/11", " 5/11", "3/11", "2/11", "31/12", "1/1", "13/13",
     "5 Nov", "5th November,", "2 Nov", "5 Bands", "Friday"}

TimeCells == {"", " ", "19:30", " 19:30"}

\* CUTOFF, the start of the day the run began
Cutoffs == {<<2025, 11, 3>>, <<2025, 1, 1>>, <<2025, 12, 31>>}

InitInfer ==
    /\ xs \in {[dateText |-> d, timeText |-> t, cutoff |-> c, lib |-> l] :
                  d \in DateCells, t \in TimeCells, c \in Cutoffs, l \in {"invalid", "throws"}}
    /\ ppc = "in" /\ ys = <<>> /\ zs = <<>>
    /\ NoFetch
    /\ Idle

\* inferYearAndTime(dateText, timeText, tz) on one row
InferCall ==
    /\ ppc = "in"
    /\ ys' = inferYearAndTime(xs.dateText, xs.timeText, xs.cutoff, xs.lib)
    /\ ppc' = "inferred"
    /\ UNCHANGED <<fetchVars, taskVars, mainVars, xs, zs>>

SpecInfer == InitInfer /\ [][InferCall]_vars

\* the day and month of a cell without a year, <<>> when it has none
CellDayMonth(d) ==
    CASE d \in {"5/11", " 5/11", "5 Nov", "5th November,"} -> <<5, 11>>
      [] d = "3/11" -> <<3, 11>>
      [] d \in {"2/11", "2 Nov"} -> <<2, 11>>
      [] d = "31/12" -> <<31, 12>>
      [] d = "1/1" -> <<1, 1>>
      [] OTHER -> <<>>

OnOrAfterCutoff(dm, c) == dm[2] > c[2] \/ (dm[2] = c[2] /\ dm[1] >= c[3])

\* C20: of every day and month without a year, inferYearAndTime returns that
\* day and month in the year of the cutoff when the day is on or after the
\* cutoff there, and in the next year when it is before; the returned date is
\* never before the cutoff; the time is 20:00 exactly when the given time
\* text is empty, and the given time otherwise.
C20_YearInferred ==
    (ppc = "inferred" /\ CellDayMonth(xs.dateText) # <<>>) =>
        /\ ys.kind = "day"
        /\ ys.day = <<IF OnOrAfterCutoff(CellDayMonth(xs.dateText), xs.cutoff)
                      THEN xs.cutoff[1] ELSE xs.cutoff[1] + 1,
                      CellDayMonth(xs.dateText)[2], CellDayMonth(xs.dateText)[1]>>
        /\ ~IsBefore(ys.day, xs.cutoff)
        /\ ys.timeText = (IF TrimStr(xs.timeText) = "" THEN "20:00" ELSE TrimStr(xs.timeText))

(* ----------------------- a date without a usable time ---------------------- *)
\* C21: a candidate without a trusted timestamp whose date text is a full
\* date and whose time text is absent or no time is built with no start:
\* no instant with an hour the page did not give, such as midnight.
C21_NoFabricatedHour ==
    (/\ ppc = "resolved"
     /\ xs.startISO.kind \in {"undefined", "garbage"}
     /\ NormalizeWs(xs.dateText) = "19/9/2025"
     /\ to24h(NormalizeWs(xs.timeText)) = "") => ys.start.kind # "at"

(* ------------------------- the time normaliser -------------------------- *)
\* A time text is a sequence of tokens: a run of digits (its value and its
\* number of digits), a run of letters (a word), or one other character.
\* The texts are lower case, as cleanTimeCandidate makes them.
Num(v, w) == [k |-> "num", v |-> v, w |-> w]

Sym(c) == [k |-> c, v |-> 0, w |-> 0]

EndTok == Sym("$")

TokAt(s, i) == IF i >= 1 /\ i <= Len(s) THEN s[i] ELSE EndTok

IsNum(t) == t.k = "num"

Symbols == {"£", ".", ":", "/", "-", " ", ",", "+", "$"}

\* \w: a digit or a letter
IsWordTok(t) == t.k \notin Symbols

\* \b between the tokens i-1 and i
Boundary(s, i) == IsWordTok(TokAt(s, i - 1)) # IsWordTok(TokAt(s, i))

\* \s* from token i on: the first token that is no blank
RECURSIVE SkipSp(_, _)
SkipSp(s, i) == IF TokAt(s, i).k = " " THEN SkipSp(s, i + 1) ELSE i

\* (?:\.\d{2})? from token i on; the token after it. A point with other
\* than two digits behind it is not taken
Decimal(s, i) ==
    IF TokAt(s, i).k = "." /\ IsNum(TokAt(s, i + 1)) /\ TokAt(s, i + 1).w = 2
    THEN i + 2 ELSE i

\* (?:\s*\/\s*£?\s*\d{1,3}(?:\.\d{2})?)* from token i on
RECURSIVE MorePrices(_, _)
MorePrices(s, i) ==
    LET a == SkipSp(s, i)
        b == SkipSp(s, a + 1)
        c == IF TokAt(s, b).k = "£" THEN SkipSp(s, b + 1) ELSE b
    IN  IF TokAt(s, a).k = "/" /\ IsNum(TokAt(s, c)) /\ TokAt(s, c).w <= 3
        THEN MorePrices(s, Decimal(s, c + 1))
        ELSE i

\* /£\s*\d{1,3}(?:\.\d{2})?(?:\s*\/\s*£?\s*\d{1,3}(?:\.\d{2})?)*/ at token
\* i: the token after the match, 0 without a match
PoundPrice(s, i) ==
    LET a == SkipSp(s, i + 1)
    IN  IF TokAt(s, i).k = "£" /\ IsNum(TokAt(s, a)) /\ TokAt(s, a).w <= 3
        THEN MorePrices(s, Decimal(s, a + 1))
        ELSE 0

FeeWords == {"adv", "otd", "door", "doors", "entry", "ticket", "tickets", "bf", "fee", "fees"}

\* /\b\d{1,3}\.\d{2}\b(?=\s*(?:adv|otd|door|entry|tickets?|\+?bf|\+?fee|\+?fees))/
FeePrice(s, i) ==
    LET a == SkipSp(s, i + 3)
        b == IF TokAt(s, a).k = "+" THEN a + 1 ELSE a
    IN  IF /\ Boundary(s, i) /\ IsNum(TokAt(s, i)) /\ TokAt(s, i).w <= 3
           /\ Decimal(s, i + 1) = i + 3 /\ Boundary(s, i + 3)
           /\ \/ TokAt(s, a).k \in FeeWords
              \/ TokAt(s, b).k \in {"bf", "fee", "fees"}
        THEN i + 3 ELSE 0

\* /\b\d{1,3}(?:\.\d{2})?\s*\/\s*\d{1,3}(?:\.\d{2})?\b/
SlashRange(s, i) ==
    LET a == SkipSp(s, Decimal(s, i + 1))
        b == SkipSp(s, a + 1)
    IN  IF /\ Boundary(s, i) /\ IsNum(TokAt(s, i)) /\ TokAt(s, i).w <= 3
           /\ TokAt(s, a).k = "/"
           /\ IsNum(TokAt(s, b)) /\ TokAt(s, b).w <= 3
        THEN IF Boundary(s, Decimal(s, b + 1)) THEN Decimal(s, b + 1)
             ELSE IF Boundary(s, b + 1) THEN b + 1 ELSE 0
        ELSE 0

JellyWords == {"doors", "door", "from", "start", "starts", "show", "showtime", "music"}

\* /\b(doors?|from|start(?:s)?|show(?:time)?|music)\b\s*[:\-–]?\s*/
Jelly(s, i) ==
    LET a == SkipSp(s, i + 1)
    IN  IF TokAt(s, i).k \in JellyWords /\ Boundary(s, i) /\ Boundary(s, i + 1)
        THEN IF TokAt(s, a).k \in {":", "-"} THEN SkipSp(s, a + 1) ELSE a
        ELSE 0

\* /\b(?:till|’?\s*til|til)\s*late\b/
TilLate(s, i) ==
    LET a == SkipSp(s, i + 1)
    IN  IF /\ TokAt(s, i).k \in {"till", "til"} /\ Boundary(s, i)
           /\ TokAt(s, a).k = "late" /\ Boundary(s, a + 1)
        THEN a + 1 ELSE 0

\* /\blate\b/
Late(s, i) ==
    IF TokAt(s, i).k = "late" /\ Boundary(s, i) /\ Boundary(s, i + 1) THEN i + 1 ELSE 0

\* /\s*[–-]\s*\d{1,2}(?::\d{2})?\s*(?:am|pm)?\b/, the longest alternative
\* that ends at a \b first
RangeEnd(s, i) ==
    LET a == SkipSp(s, i)
        n == SkipSp(s, a + 1)
        m == IF TokAt(s, n + 1).k = ":" /\ IsNum(TokAt(s, n + 2)) /\ TokAt(s, n + 2).w = 2
             THEN n + 3 ELSE n + 1
        p == SkipSp(s, m)
        q == SkipSp(s, n + 1)
    IN  IF TokAt(s, a).k = "-" /\ IsNum(TokAt(s, n)) /\ TokAt(s, n).w <= 2
        THEN CASE TokAt(s, p).k \in {"am", "pm"} /\ Boundary(s, p + 1) -> p + 1
               [] Boundary(s, p) -> p
               [] Boundary(s, m) -> m
               [] TokAt(s, q).k \in {"am", "pm"} /\ Boundary(s, q + 1) -> q + 1
               [] Boundary(s, q) -> q
               [] Boundary(s, n + 1) -> n + 1
               [] OTHER -> 0
        ELSE 0

\* String.prototype.replace(/.../g, ""): from the left, every match dropped
RECURSIVE DropPound(_, _)
DropPound(s, i) ==
    IF i > Len(s) THEN <<>>
    ELSE IF PoundPrice(s, i) # 0 THEN DropPound(s, PoundPrice(s, i))
    ELSE <<s[i]>> \o DropPound(s, i + 1)

RECURSIVE DropFee(_, _)
DropFee(s, i) ==
    IF i > Len(s) THEN <<>>
    ELSE IF FeePrice(s, i) # 0 THEN DropFee(s, FeePrice(s, i))
    ELSE <<s[i]>> \o DropFee(s, i + 1)

RECURSIVE DropSlash(_, _)
DropSlash(s, i) ==
    IF i > Len(s) THEN <<>>
    ELSE IF SlashRange(s, i) # 0 THEN DropSlash(s, SlashRange(s, i))
    ELSE <<s[i]>> \o DropSlash(s, i + 1)

\* s.replace(/\b(\d{1,2})\.(\d{2})\b/g, "$1:$2")
RECURSIVE Dotted(_, _)
Dotted(s, i) ==
    IF i > Len(s) THEN <<>>
    ELSE IF /\ Boundary(s, i) /\ IsNum(s[i]) /\ s[i].w <= 2
            /\ Decimal(s, i + 1) = i + 3 /\ Boundary(s, i + 3)
    THEN <<s[i], Sym(":"), s[i + 2]>> \o Dotted(s, i + 3)
    ELSE <<s[i]>> \o Dotted(s, i + 1)

RECURSIVE DropJelly(_, _)
DropJelly(s, i) ==
    IF i > Len(s) THEN <<>>
    ELSE IF Jelly(s, i) # 0 THEN DropJelly(s, Jelly(s, i))
    ELSE <<s[i]>> \o DropJelly(s, i + 1)

RECURSIVE DropTilLate(_, _)
DropTilLate(s, i) ==
    IF i > Len(s) THEN <<>>
    ELSE IF TilLate(s, i) # 0 THEN DropTilLate(s, TilLate(s, i))
    ELSE <<s[i]>> \o DropTilLate(s, i + 1)

RECURSIVE DropLate(_, _)
DropLate(s, i) ==
    IF i > Len(s) THEN <<>>
    ELSE IF Late(s, i) # 0 THEN DropLate(s, Late(s, i))
    ELSE <<s[i]>> \o DropLate(s, i + 1)

RECURSIVE DropRangeEnd(_, _)
DropRangeEnd(s, i) ==
    IF i > Len(s) THEN <<>>
    ELSE IF RangeEnd(s, i) # 0 THEN DropRangeEnd(s, RangeEnd(s, i))
    ELSE <<s[i]>> \o DropRangeEnd(s, i + 1)

\* String.prototype.trim on tokens
RECURSIVE TrimToks(_)
TrimToks(s) ==
    IF s = <<>> THEN s
    ELSE IF s[1].k = " " THEN TrimToks(Tail(s))
    ELSE IF s[Len(s)].k = " " THEN TrimToks(SubSeq(s, 1, Len(s) - 1))
    ELSE s

cleanTimeCandidate(s) ==
    TrimToks(DropRangeEnd(DropLate(DropTilLate(DropJelly(
        Dotted(DropSlash(DropFee(DropPound(TrimToks(s), 1), 1), 1), 1), 1), 1), 1), 1))

\* a result of to24h: <<hours, minutes>> stands for the text "HH:mm" with both
\* numbers padded to two digits, <<>> for null
NoClock == <<>>

Meridiem == {"am", "pm"}

\* if (ap === "pm" && hh !== 12) hh += 12; if (ap === "am" && hh === 12) hh = 0
Hour24(hh, ap) ==
    CASE ap = "pm" /\ hh # 12 -> hh + 12
      [] ap = "am" /\ hh = 12 -> 0
      [] OTHER -> hh

\* /\b(\d{1,2})(?::(\d{2}))\s*(am|pm)\b/i at token i
MinutesMeridiem(s, i) ==
    /\ Boundary(s, i) /\ IsNum(TokAt(s, i)) /\ TokAt(s, i).w <= 2
    /\ TokAt(s, i + 1).k = ":" /\ IsNum(TokAt(s, i + 2)) /\ TokAt(s, i + 2).w = 2
    /\ TokAt(s, SkipSp(s, i + 3)).k \in Meridiem
    /\ Boundary(s, SkipSp(s, i + 3) + 1)

\* /\b(\d{1,2})\s*(am|pm)\b/i at token i
HourMeridiem(s, i) ==
    /\ Boundary(s, i) /\ IsNum(TokAt(s, i)) /\ TokAt(s, i).w <= 2
    /\ TokAt(s, SkipSp(s, i + 1)).k \in Meridiem
    /\ Boundary(s, SkipSp(s, i + 1) + 1)

\* /\b(\d{1,2}):(\d{2})\b/ at token i
HourMinutes(s, i) ==
    /\ Boundary(s, i) /\ IsNum(TokAt(s, i)) /\ TokAt(s, i).w <= 2
    /\ TokAt(s, i + 1).k = ":" /\ IsNum(TokAt(s, i + 2)) /\ TokAt(s, i + 2).w = 2
    /\ Boundary(s, i + 3)

Clamp(lo, hi, x) == IF x < lo THEN lo ELSE IF x > hi THEN hi ELSE x

\* String.prototype.match: the leftmost token a pattern matches at, 0 if none
FirstMatch(s, P(_, _)) ==
    IF \E i \in 1..Len(s) : P(s, i)
    THEN CHOOSE i \in 1..Len(s) : P(s, i) /\ \A j \in 1..(i - 1) : ~P(s, j)
    ELSE 0

\* to24h on a cleaned text. The third pattern of the source, a range that
\* begins with a 12-hour time before a dash, always contains a match of
\* one of the first two, so it decides nothing
To24hClean(s) ==
    LET a == FirstMatch(s, MinutesMeridiem)
        b == FirstMatch(s, HourMeridiem)
        c == FirstMatch(s, HourMinutes)
    IN  CASE a # 0 -> <<Hour24(s[a].v, TokAt(s, SkipSp(s, a + 3)).k), s[a + 2].v>>
          [] b # 0 -> <<Hour24(s[b].v, TokAt(s, SkipSp(s, b + 1)).k), 0>>
          [] c # 0 -> <<Clamp(0, 23, s[c].v), Clamp(0, 59, s[c + 2].v)>>
          [] OTHER -> NoClock

\* to24h of a tokenised text: null for the empty text
To24h(s) == IF s = <<>> THEN NoClock ELSE To24hClean(cleanTimeCandidate(s))

\* a time as a page writes it: an hour, perhaps minutes behind a colon or a
\* point, perhaps am or pm, perhaps a blank before it
Written(h, sep, mm, gap, ap) == [h |-> h, sep |-> sep, mm |-> mm, gap |-> gap, ap |-> ap]

TimeToks(t) ==
    <<t.h>>
    \o (IF t.sep = "" THEN <<>> ELSE <<Sym(t.sep), t.mm>>)
    \o (IF t.gap THEN <<Sym(" ")>> ELSE <<>>)
    \o (IF t.ap = "" THEN <<>> ELSE <<Sym(t.ap)>>)

WrittenHours == {Num(0, 1), Num(8, 1), Num(12, 2), Num(13, 2)}

WrittenMinutes == {Num(0, 2), Num(30, 2), Num(75, 2)}

WrittenTimes ==
    {Written(h, "", Num(0, 2), g, ap) : h \in WrittenHours, g \in BOOLEAN, ap \in {"", "am", "pm"}}
    \cup {Written(h, sep, mm, FALSE, ap) :
            h \in WrittenHours, sep \in {":", "."}, mm \in WrittenMinutes, ap \in {"", "am", "pm"}}

\* what stands before the time: nothing; "doors "; "£10.25 entry, doors ";
\* "£10/£12 "; "10.25 adv "; "£8 adv "; "£10-£12 doors "
Before ==
    {<<>>,
     <<Sym("doors"), Sym(" ")>>,
     <<Sym("£"), Num(10, 2), Sym("."), Num(25, 2), Sym(" "), Sym("entry"), Sym(","), Sym(" "),
       Sym("doors"), Sym(" ")>>,
     <<Sym("£"), Num(10, 2), Sym("/"), Sym("£"), Num(12, 2), Sym(" ")>>,
     <<Num(10, 2), Sym("."), Num(25, 2), Sym(" "), Sym("adv"), Sym(" ")>>,
     <<Sym("£"), Num(8, 1), Sym(" "), Sym("adv"), Sym(" ")>>,
     <<Sym("£"), Num(10, 2), Sym("-"), Sym("£"), Num(12, 2), Sym(" "), Sym("doors"), Sym(" ")>>}

InitTime ==
    /\ xs \in {[before |-> b, time |-> t] : b \in Before, t \in WrittenTimes}
    /\ ppc = "in" /\ ys = <<>> /\ zs = <<>>
    /\ NoFetch
    /\ Idle

\* to24h(text)
TimeCall ==
    /\ ppc = "in"
    /\ ys' = To24h(xs.before \o TimeToks(xs.time))
    /\ ppc' = "timed"
    /\ UNCHANGED <<fetchVars, taskVars, mainVars, xs, zs>>

SpecTime == InitTime /\ [][TimeCall]_vars

\* a written time that is a time of day: 1..12 with am or pm, or 0..23 with
\* minutes, the minutes below 60
IsRealTime(t) ==
    /\ t.sep # "" \/ t.ap # ""
    /\ t.sep # "" => t.mm.v <= 59
    /\ IF t.ap = "" THEN t.h.v <= 23 ELSE t.h.v >= 1 /\ t.h.v <= 12

\* the time of day a written time means
RealTime(t) ==
    <<CASE t.ap = "pm" /\ t.h.v < 12 -> t.h.v + 12
        [] t.ap = "am" /\ t.h.v = 12 -> 0
        [] OTHER -> t.h.v,
      IF t.sep = "" THEN 0 ELSE t.mm.v>>

HasAmount(b) == \E i \in 1..Len(b) : b[i].k = "£"

\* C22: of a text that holds an amount of money next to a real time, the
\* normaliser returns that time ("£10.25 entry, doors 8pm" gives 20:00),
\* never a time made of the digits of the amount.
C22_AmountNextToTime ==
    (ppc = "timed" /\ HasAmount(xs.before) /\ IsRealTime(xs.time)) => ys = RealTime(xs.time)

\* C30: to24h returns null or a well-formed time: hours 00..23 and minutes
\* 00..59; 12am is hour 00, 12pm hour 12, h pm (1 <= h <= 11) hour h+12; a
\* bare hour without am, pm or minutes gives null.
C30_WellFormedTime ==
    ppc = "timed" =>
        /\ ys # NoClock => (ys[1] >= 0 /\ ys[1] <= 23 /\ ys[2] >= 0 /\ ys[2] <= 59)
        /\ (xs.before = <<>> /\ xs.time.sep = "" /\ xs.time.ap # "" /\ xs.time.h.v >= 1
                /\ xs.time.h.v <= 12) => ys = RealTime(xs.time)
        /\ (xs.before = <<>> /\ xs.time.sep = "" /\ xs.time.ap = "") => ys = NoClock

(* ------------------------- the output of a run -------------------------- *)
\* C23: in a run, standard output receives one write, the array of the kept
\* records, whatever sources failed; nothing is written before main has
\* filtered, and no step of the run follows the write, so no task is still
\* at work, logging, after it.
C23_OneWriteAtTheEnd ==
    /\ [](/\ Len(stdout) <= 1
          /\ mainpc # "DONE" => stdout = <<>>
          /\ mainpc = "DONE" => (stdout = <<future>> /\ EveryTaskSettled))
    /\ [][stdout = <<>>]_vars

\* a finished run in which a source failed and a record was written
C23_Witness ==
    /\ mainpc = "DONE"
    /\ \E s \in Sources : tpc[s] = "rejected"
    /\ Len(stdout) = 1 /\ Len(stdout[1]) >= 1

(* --------------------------- the end of main ---------------------------- *)
\* An entry of public/events.json as JSON.parse returns it: a record, null, a
\* number, a record whose title is a number, a record whose venue is an
\* object, or one whose venue is an object with no string form
\* ({"toString": null}). A field an entry lacks reads as undefined.
Shaped(r, sh) ==
    [source |-> r.source, venue |-> r.venue, url |-> r.url, title |-> r.title,
     start |-> r.start, scrapedAt |-> r.scrapedAt, shape |-> sh]

Undefined == [source |-> "", venue |-> "", url |-> NoUrl, title |-> "", start |-> NoStart,
              scrapedAt |-> 0]

CacheEntries ==
    {Shaped(DiveRecord(U2, "quiz", RunNow, 1), "record"),
     Shaped(DiveRecord(U1, "Gig", RunNow, 1), "record"),
     Shaped(Undefined, "null"),
     Shaped(Undefined, "number"),
     Shaped([Undefined EXCEPT !.url = U2], "title-number"),
     Shaped([Undefined EXCEPT !.url = U2], "venue-object"),
     Shaped([Undefined EXCEPT !.url = U2], "venue-opaque")}

\* the file: fs.statSync throws, readFileSync throws, JSON.parse throws, the
\* value is no array, or it is an array of entries
CacheFiles ==
    {[file |-> f, entries |-> <<>>] : f \in {"missing", "unreadable", "malformed", "object"}}
    \cup {[file |-> "array", entries |-> e] : e \in SeqsUpTo(CacheEntries, 2)}

\* (ev.title || "").toLowerCase() or (ev.venue || "").toLowerCase() throws
DedupThrows(ev) == ev.shape \in {"title-number", "venue-object", "venue-opaque"}

\* the try block of main around the cache: every throw inside it is caught;
\* `events` is assigned the merged list before the second deduplicateEvents
ReconcileCache(evs, cache) ==
    LET Maintained(ev) == ev.url \notin NewEventUrls(evs)
        merged == evs \o SelectSeq(cache.entries, Maintained)
    IN  CASE cache.file # "array" -> evs
          [] \E i \in 1..Len(cache.entries) : cache.entries[i].shape = "null" -> evs
          [] \E i \in 1..Len(merged) : DedupThrows(merged[i]) -> merged
          [] OTHER -> deduplicateEvents(merged)

\* venues.join(", ") in the summary: String(venue) throws
SummaryThrows(evs) == \E i \in 1..Len(evs) : evs[i].shape = "venue-opaque"

\* what the scrapers returned, deduplicated: nothing when every source failed
FreshLists ==
    {<<>>, <<Shaped(DiveRecord(U1, "Gig", RunNow, RunNow), "record")>>,
     <<Shaped(DiveRecord(U1, "Gig", RunNow, RunNow), "record"),
       Shaped(PolarRecord(<<"polar", 1>>, "Gig", NoStart, RunNow), "record")>>}

Running == <<>>

InitExit ==
    /\ events \in FreshLists
    /\ xs \in CacheFiles
    /\ collected = events
    /\ mainpc = "DEDUPING" /\ stage = "DEDUPING"
    /\ future = <<>> /\ stdout = <<>> /\ snapshot = NoSnapshot
    /\ tasks = <<>> /\ tpc = <<>> /\ urls = <<>> /\ bi = <<>> /\ det = <<>> /\ out = <<>>
    /\ listRes = <<>>
    /\ opts = [retries |-> DefaultRetries, retryDelayMs |-> DefaultRetryDelayMs]
    /\ net = {} /\ req = <<>>
    /\ world = [pages |-> "none", links |-> <<>>, now |-> RunNow]
    /\ ppc = "none" /\ ys = Running /\ zs = <<>>

ExitReconcile ==
    /\ mainpc = "DEDUPING"
    /\ events' = ReconcileCache(events, xs)
    /\ mainpc' = "RECONCILING"
    /\ stage' = "RECONCILING"
    /\ UNCHANGED <<fetchVars, taskVars, collected, future, snapshot, stdout, pureVars>>

\* the summary and process.stdout.write; the process then ends with status 0
ExitWrite ==
    /\ mainpc = "FILTERING"
    /\ ~SummaryThrows(events)
    /\ stdout' = Append(stdout, future)
    /\ mainpc' = "DONE" /\ stage' = "DONE"
    /\ ys' = <<0>>
    /\ UNCHANGED <<fetchVars, taskVars, collected, events, future, snapshot, ppc, xs, zs>>

\* catch (e) { console.error(...); process.exit(1) }
ExitCrash ==
    /\ mainpc = "FILTERING"
    /\ SummaryThrows(events)
    /\ mainpc' = "CRASHED" /\ stage' = "CRASHED"
    /\ ys' = <<1>>
    /\ UNCHANGED <<fetchVars, taskVars, collected, events, future, snapshot, stdout, ppc, xs, zs>>

NextExit == ExitReconcile \/ MainFilter \/ ExitWrite \/ ExitCrash

SpecExit == InitExit /\ [][NextExit]_vars

InOutput(r) == stdout # <<>> /\ \E i \in 1..Len(stdout[1]) : stdout[1][i] = r

\* C24: whatever the cache file is (missing, unreadable, malformed, no array,
\* an array with entries that are no records) and however few records the
\* sources gave, the run does not end with a non-zero status, and it writes
\* the records it scraped.
C24_UpstreamNeverFatal ==
    /\ ys # <<1>>
    /\ mainpc = "DONE" =>
          \A i \in 1..Len(collected) : KeepFuture(collected[i]) => InOutput(collected[i])

(* ------------------------ the rows of a sheet --------------------------- *)
\* A row of a sheet, by what its handling does: "valid" builds a record that
\* is kept; "past" builds one before the cutoff; "empty" builds one without
\* title, URL, start and venue; "throws" raises an error inside the try
\* block (the inference of the year, the parsers, buildEvent); "split" has
\* an empty date column and filled day, month or year columns.
RowKinds == {"valid", "past", "empty", "throws", "split"}

\* const dateText = ...; if (!dateText) { ... if (combo) dateText = combo }:
\* the assignment to the constant throws a TypeError before the try block
ThrowsBeforeTry(kind) == kind = "split"

ThrowsInTry(kind) == kind = "throws"

InitCsv ==
    /\ xs \in SeqsUpTo(RowKinds, MaxLen)
    /\ ppc = "rows" /\ ys = <<>> /\ zs = [i |-> 1, errors |-> 0]
    /\ NoFetch
    /\ Idle

\* one pass of for (let i = 0; i < rows.length; i++): the row is kept (its
\* number stands for its record), skipped, counted as an error by the
\* catch, or its error leaves the loop and scrapeCsvVenue rejects
CsvRow ==
    /\ ppc = "rows"
    /\ zs.i <= Len(xs)
    /\ IF ThrowsBeforeTry(xs[zs.i])
       THEN ppc' = "rejected" /\ UNCHANGED <<ys, zs>>
       ELSE /\ ppc' = ppc
            /\ ys' = IF xs[zs.i] = "valid" THEN Append(ys, zs.i) ELSE ys
            /\ zs' = [i |-> zs.i + 1,
                      errors |-> IF ThrowsInTry(xs[zs.i]) THEN zs.errors + 1 ELSE zs.errors]
    /\ UNCHANGED <<fetchVars, taskVars, mainVars, xs>>

\* return out
CsvReturn ==
    /\ ppc = "rows"
    /\ zs.i > Len(xs)
    /\ ppc' = "returned"
    /\ UNCHANGED <<fetchVars, taskVars, mainVars, xs, ys, zs>>

NextCsv == CsvRow \/ CsvReturn

SpecCsv == InitCsv /\ [][NextCsv]_vars

ValidRows(rows) == {i \in 1..Len(rows) : rows[i] = "valid"}

\* C25: a row whose handling raises an error, at any point, is skipped alone:
\* scrapeCsvVenue does not reject, and it returns every valid row of the
\* sheet, those before and those after the bad row.
C25_BadRowIsolated ==
    /\ ppc # "rejected"
    /\ ppc = "returned" => {ys[k] : k \in 1..Len(ys)} = ValidRows(xs)

(* ---------------------------- the skip toggles -------------------------- *)
\* the variables of the environment main reads; each is absent or "1"
Toggles ==
    {"SKIP_WELLY", "SKIP_VOX", "SKIP_UMU", "SKIP_DIVE", "SKIP_TPR", "SKIP_MOODYS",
     "SKIP_UNDERDOG", "SKIP_PAVE", "ONLY_NEWLAND_TAP"}

\* process.env.X === "1"
IsSet(env, t) == env[t] = "1"

Csv(name) == <<"scrapeCsvVenue", name>>

Fn(name) == <<name, "">>

CsvVenues ==
    <<Csv("Mr Moody's Tavern"), Csv("Commun'ull"), Csv("Späti Bar"), Csv("Hoi"),
      Csv("Underdog"), Csv("Newland Tap"), Csv("Garbutts Bar")>>

\* the task list main builds; skipVox and skipUnderdog are read and logged
\* and decide nothing, and scrapeVoxBox is never called
MainTasks(env) ==
    IF IsSet(env, "ONLY_NEWLAND_TAP") THEN <<Csv("Newland Tap")>>
    ELSE <<Fn("scrapePolarBear"), Fn("scrapeAdelphi")>>
         \o (IF ~IsSet(env, "SKIP_WELLY") THEN <<Fn("scrapeWelly")>> ELSE <<>>)
         \o <<Fn("scrapeMollyMangans")>>
         \o (IF ~IsSet(env, "SKIP_UMU") THEN <<Fn("scrapeUnionMashUp")>> ELSE <<>>)
         \o (IF ~IsSet(env, "SKIP_DIVE") THEN <<Fn("scrapeDiveHU5")>> ELSE <<>>)
         \o (IF ~IsSet(env, "SKIP_TPR") THEN <<Fn("scrapeTPR")>> ELSE <<>>)
         \o CsvVenues
         \o (IF ~IsSet(env, "SKIP_MOODYS") THEN <<Fn("synthMrMoodysSundayLunch")>> ELSE <<>>)
         \o (IF ~IsSet(env, "SKIP_PAVE") THEN <<Fn("scrapePaveBar")>> ELSE <<>>)

InitToggles ==
    /\ xs \in [Toggles -> {"absent", "1"}]
    /\ ppc = "in" /\ ys = <<>> /\ zs = <<>>
    /\ NoFetch
    /\ Idle

\* main up to `await Promise.allSettled(tasks)`
BuildTasks ==
    /\ ppc = "in"
    /\ ys' = MainTasks(xs)
    /\ ppc' = "tasks"
    /\ UNCHANGED <<fetchVars, taskVars, mainVars, xs, zs>>

SpecToggles == InitToggles /\ [][BuildTasks]_vars

\* the scraper a skip toggle names
ToggledTask(t) ==
    CASE t = "SKIP_WELLY" -> Fn("scrapeWelly")
      [] t = "SKIP_VOX" -> Fn("scrapeVoxBox")
      [] t = "SKIP_UMU" -> Fn("scrapeUnionMashUp")
      [] t = "SKIP_DIVE" -> Fn("scrapeDiveHU5")
      [] t = "SKIP_TPR" -> Fn("scrapeTPR")
      [] t = "SKIP_MOODYS" -> Fn("synthMrMoodysSundayLunch")
      [] t = "SKIP_UNDERDOG" -> Csv("Underdog")
      [] OTHER -> Fn("scrapePaveBar")

InTasks(k) == \E i \in 1..Len(ys) : ys[i] = k

\* C26: of every source with a skip toggle: with the toggle set to 1 its
\* task is not in the task list of the run, and with the toggle absent it is.
C26_SkipToggles ==
    ppc = "tasks" =>
        \A t \in Toggles \ {"ONLY_NEWLAND_TAP"} :
            /\ xs[t] = "1" => ~InTasks(ToggledTask(t))
            /\ xs[t] = "absent" => InTasks(ToggledTask(t))

(* ------------------------------ the server ------------------------------ *)
\* The repository holds three servers: two that keep a single-flight slot
\* and check the admin key ("guarded"), and one that does neither ("open").
\* xs holds the server's globals and public/events.json, ys the requests in
\* the order they arrived, zs the scrapes in the order they were started.
MaxReqs == 2

Variants == {"guarded", "open"}

\* the values of process.env.ADMIN_KEY || "" and of req.query.key
AdminKeys == {"", "k"}

QueryKeys == {"absent", "", "k", "x"}

NoScrape == 0

Request(kind, key) ==
    [kind |-> kind, key |-> key, pc |-> "start", on |-> NoScrape, status |-> 0, nexts |-> 0,
     during |-> {}]

\* a scrape as runScraper starts it for request i
Scrape(i) == [child |-> "running", stage |-> "none", promise |-> "pending", by |-> i]

\* if (scrapeInFlight) return scrapeInFlight; the open server has no slot
JoinsNever(g) == FALSE

Joins(g) == g.variant = "guarded" /\ g.slot # NoScrape

\* the scrapes whose child process is running
RunningChildren == {k \in 1..Len(zs) : zs[k].child = "running"}

\* runScraper() called by request i: the promise it returns, by the number
\* of its scrape; a new child is started unless the call joins. The request
\* remembers which children were running when it called
CallRunScraper(i) ==
    IF Joins(xs)
    THEN /\ ys' = [ys EXCEPT ![i].pc = "await", ![i].on = xs.slot,
                             ![i].during = RunningChildren]
         /\ UNCHANGED <<xs, zs>>
    ELSE /\ zs' = Append(zs, Scrape(i))
         /\ xs' = [xs EXCEPT !.slot = IF xs.variant = "guarded" THEN Len(zs) + 1 ELSE xs.slot]
         /\ ys' = [ys EXCEPT ![i].pc = "await", ![i].on = Len(zs) + 1,
                             ![i].during = RunningChildren]

ServerFrame == UNCHANGED <<fetchVars, taskVars, mainVars, ppc>>

\* a request arrives
Arrive ==
    /\ Len(ys) < MaxReqs
    /\ \E r \in {Request("GET", "absent")} \cup {Request("POST", k) : k \in QueryKeys} :
          ys' = Append(ys, r)
    /\ UNCHANGED <<xs, zs>>
    /\ ServerFrame

\* if (!ADMIN_KEY || req.query.key !== ADMIN_KEY): the open server has no
\* such line
Forbidden(g, key) == g.variant = "guarded" /\ (g.adminKey = "" \/ key # g.adminKey)

\* app.post("/api/refresh") up to its await
PostHandle(i) ==
    /\ ys[i].kind = "POST" /\ ys[i].pc = "start"
    /\ IF Forbidden(xs, ys[i].key)
       THEN /\ ys' = [ys EXCEPT ![i].pc = "done", ![i].status = 403]
            /\ UNCHANGED <<xs, zs>>
       ELSE CallRunScraper(i)
    /\ ServerFrame

\* app.get("/events.json") up to its first await: a missing file needs a
\* scrape at once, an existing one is read first. In the open server
\* express.static stands before the handler and answers when the file exists
GetCheck(i) ==
    /\ ys[i].kind = "GET" /\ ys[i].pc = "start"
    /\ CASE xs.file = "missing" -> CallRunScraper(i)
         [] xs.variant = "open" ->
              ys' = [ys EXCEPT ![i].pc = "done", ![i].status = 200] /\ UNCHANGED <<xs, zs>>
         [] OTHER -> ys' = [ys EXCEPT ![i].pc = "reading"] /\ UNCHANGED <<xs, zs>>
    /\ ServerFrame

\* after await readFile: an empty file or "[]" needs a scrape; a failed read
\* goes to the outer catch; finally next()
GetRead(i) ==
    /\ ys[i].kind = "GET" /\ ys[i].pc = "reading"
    /\ \/ xs.file = "empty" /\ CallRunScraper(i)
       \/ /\ ys' = [ys EXCEPT ![i].pc = "done", ![i].nexts = @ + 1]
          /\ UNCHANGED <<xs, zs>>
    /\ ServerFrame

\* the await of runScraper() ends: the POST answers 200 or 500, the GET
\* logs a failure and calls next() in its finally
Resume(i) ==
    /\ ys[i].pc = "await"
    /\ zs[ys[i].on].promise # "pending"
    /\ ys' = [ys EXCEPT ![i].pc = "done",
                        ![i].status = IF ys[i].kind = "GET" THEN 0
                                      ELSE IF zs[ys[i].on].promise = "resolved" THEN 200 ELSE 500,
                        ![i].nexts = IF ys[i].kind = "GET" THEN @ + 1 ELSE @]
    /\ UNCHANGED <<xs, zs>>
    /\ ServerFrame

\* scrapeInFlight = null, the first line of execFile's callback
SlotAtCloseKeptOnError(slot, result) == IF result = "err" THEN slot ELSE NoScrape

SlotAtClose(slot, result) == NoScrape

\* the child of scrape k has closed (by itself, or killed at the timeout)
\* and execFile calls back: with an error, with output that is no JSON, or
\* with an array of records, which is then written
ChildClose(k) ==
    /\ zs[k].child = "running"
    /\ \E result \in {"err", "garbage", "array"} :
          /\ zs' = [zs EXCEPT ![k] =
                      [child |-> "closed",
                       stage |-> IF result = "array" THEN "writing" ELSE "none",
                       promise |-> IF result = "array" THEN "pending" ELSE "rejected",
                       by |-> zs[k].by]]
          /\ xs' = [xs EXCEPT !.slot = IF xs.variant = "guarded"
                                       THEN SlotAtClose(xs.slot, result) ELSE xs.slot]
    /\ UNCHANGED ys
    /\ ServerFrame

\* await writeFile(...) ends: resolve({count}) or the catch rejects
WriteDone(k) ==
    /\ zs[k].stage = "writing"
    /\ \E ok \in BOOLEAN, data \in {"empty", "data"} :
          /\ zs' = [zs EXCEPT ![k].stage = "none",
                              ![k].promise = IF ok THEN "resolved" ELSE "rejected"]
          /\ xs' = [xs EXCEPT !.file = IF ok THEN data ELSE xs.file]
    /\ UNCHANGED ys
    /\ ServerFrame

InitServer ==
    /\ xs \in [variant : Variants, adminKey : AdminKeys, slot : {NoScrape},
               file : {"missing", "empty", "data"}]
    /\ ys = <<>> /\ zs = <<>> /\ ppc = "serving"
    /\ NoFetch
    /\ Idle

RequestStep(i) == PostHandle(i) \/ GetCheck(i) \/ GetRead(i) \/ Resume(i)

ScrapeStep(k) == ChildClose(k) \/ WriteDone(k)

NextServer ==
    \/ Arrive
    \/ \E i \in 1..Len(ys) : RequestStep(i)
    \/ \E k \in 1..Len(zs) : ScrapeStep(k)

SpecServer == InitServer /\ [][NextServer]_vars

\* C27: a POST /api/refresh that does not carry the configured key, or any
\* such request while ADMIN_KEY is unset or empty, is answered 403 and never
\* calls runScraper, in every server of the repository.
C27_RefreshProtected ==
    ppc = "serving" =>
        \A i \in 1..Len(ys) :
            (ys[i].kind = "POST" /\ (xs.adminKey = "" \/ ys[i].key # xs.adminKey)) =>
                /\ ys[i].on = NoScrape
                /\ ys[i].pc = "done" => ys[i].status = 403

SlotAndNext ==
    (ppc = "serving" /\ xs.variant = "guarded") =>
        /\ xs.slot # NoScrape => zs[xs.slot].child = "running"
        /\ \A i \in 1..Len(ys) :
              /\ (ys[i].on # NoScrape /\ ys[i].during = {}) => zs[ys[i].on].by = i
              /\ ys[i].nexts <= 1
              /\ (ys[i].kind = "GET" /\ ys[i].pc = "done") => ys[i].nexts = 1

\* C29: in the servers that keep the slot, scrapeInFlight is null again once
\* a scrape's child has ended, whatever the outcome, so the next runScraper
\* call starts a new child; and every request is answered: each GET
\* /events.json is passed to the static handler exactly once.
C29_ReleasedAndServed ==
    /\ []SlotAndNext
    /\ \A i \in 1..MaxReqs :
          (ppc = "serving" /\ xs.variant = "guarded" /\ i <= Len(ys))
              ~> (i <= Len(ys) /\ ys[i].pc = "done")

\* a GET whose scrape failed has been passed on, and the request after it
\* has started a second child
C29_Witness ==
    /\ ppc = "serving" /\ xs.variant = "guarded" /\ Len(ys) = 2 /\ Len(zs) = 2
    /\ ys[1].kind = "GET" /\ ys[1].pc = "done" /\ ys[1].nexts = 1
    /\ zs[1].promise = "rejected"
    /\ zs[2].by = 2 /\ xs.slot = 2


\* the two servers that keep the slot and check the key
InitGuarded == InitServer /\ xs.variant = "guarded"

SpecGuarded == InitGuarded /\ [][NextServer]_vars

\* a handler that can run does run; a child closes (execFile's timeout
\* kills one that does not end) and a write ends
FairGuarded ==
    /\ SpecGuarded
    /\ \A i \in 1..MaxReqs : WF_vars(i <= Len(ys) /\ RequestStep(i))
    /\ \A k \in 1..MaxReqs : WF_vars(k <= Len(zs) /\ ScrapeStep(k))

====
